---- MODULE Spec2Model ----
(***************************************************************************)
(* Enrichment engine (src/src/enrichment/enricher.py) and ETL load engine  *)
(* (src/src/etl/pipeline.py) of the OpenFoodFacts pipeline, with the       *)
(* document store (src/src/database/mongodb_manager.py) and the relational *)
(* schema (src/src/etl/models.py) they work against.                       *)
(*                                                                         *)
(* Python values are tagged records, so that a missing key, a null and a   *)
(* value of an unexpected type stay distinct.  Strings are sequences of    *)
(* one-character strings, so that strip() and slicing are computed.        *)
(***************************************************************************)
EXTENDS Integers, Sequences, FiniteSets, TLC

\* ------------------------------------------------------------------------
\* Python values
\* ------------------------------------------------------------------------

Missing == [t |-> "missing"]

None == [t |-> "none"]

PyStr(s) == [t |-> "str", v |-> s]

PyInt(n) == [t |-> "int", v |-> n]

\* a float that is a whole number of quarters: PyFloat(3) is 0.75.  Products
\* and sums of such values by 50 and 0.5 are exact in binary floating point.
PyFloat(quarters) == [t |-> "float", v |-> quarters]

\* float("nan")
NaN == [t |-> "nan"]

PyList(items) == [t |-> "list", v |-> items]

PyDict(fields) == [t |-> "dict", v |-> fields]

IsStr(x) == x.t = "str"

\* Python truthiness of a value read from a document
Truthy(x) ==
    CASE x.t = "missing" -> FALSE
      [] x.t = "none"    -> FALSE
      [] x.t = "str"     -> Len(x.v) > 0
      [] x.t = "int"     -> x.v # 0
      [] x.t = "float"   -> x.v # 0
      [] x.t = "list"    -> Len(x.v) > 0
      [] OTHER           -> TRUE

\* dict.get(key, default): the default replaces a missing key only, never a null
Get(d, key, default) == IF d[key] = Missing THEN default ELSE d[key]

Min2(a, b) == IF a <= b THEN a ELSE b

\* seeded fault: a slice that cuts nothing
TakeAll(s, n) == s

\* s[:n]
Take(s, n) == SubSeq(s, 1, Min2(n, Len(s)))

IsSpace(c) == c = " "

RECURSIVE LStrip(_)
LStrip(s) == IF s # <<>> /\ IsSpace(Head(s)) THEN LStrip(Tail(s)) ELSE s

RECURSIVE RStrip(_)
RStrip(s) ==
    IF s # <<>> /\ IsSpace(s[Len(s)]) THEN RStrip(SubSeq(s, 1, Len(s) - 1)) ELSE s

\* str.strip()
Strip(s) == RStrip(LStrip(s))

\* a string of n copies of the character c
Rep(c, n) == [i \in 1..n |-> c]

\* ------------------------------------------------------------------------
\* Column limits of the relational schema, as pipeline.py applies them
\* ------------------------------------------------------------------------

NAME_MAX == 255

PRODUCT_NAME_MAX == 500

GRADE_MAX == 1

EXTRACT_LIMIT == 10000

\* ------------------------------------------------------------------------
\* Bounds of the model
\* ------------------------------------------------------------------------

\* documents the enriched collection may hold
MaxDocs == 2

\* run() invocations in one behaviour
MaxRuns == 2

\* how far the number of success records of a large collection may exceed
\* the extraction limit
MaxOver == 1

\* the largest max_retries enrich_product is called with (its default is 2)
MaxRetries == 2

\* the longest list a batch insert of the document store is given, and the
\* longest page the catalog API answers with
MaxBatch == 2

\* while collect runs, the page number and the counters of stats other than
\* collected have no bound: they are followed up to this value and recorded
\* as this value beyond it
MaxCounted == 1

\* ------------------------------------------------------------------------
\* Enriched documents (collection products_enriched)
\* ------------------------------------------------------------------------

DataKeys ==
    {"code", "product_name", "brands", "category", "nutriscore_grade",
     "nova_group", "quality_score"}

\* "data": {} of a failed record: every key is missing
NoData == [k \in DataKeys |-> Missing]

Data(code, name, brands, category, grade, nova, score) ==
    [code |-> code, product_name |-> name, brands |-> brands,
     category |-> category, nutriscore_grade |-> grade, nova_group |-> nova,
     quality_score |-> score]

EnrichedDoc(rid, status, data, error) ==
    [raw_id |-> rid, status |-> status, data |-> data, error |-> error]

\* data that carries nutrition values next to the other keys
WithNutrition(data, nutrition) == [nutrition |-> PyDict(nutrition)] @@ data

Long501 == Rep("n", PRODUCT_NAME_MAX + 1)

Long256 == Rep("x", NAME_MAX) \o <<"y">>

\* The documents the store may be given.  Between them: two success records
\* with the same code and different names, brand names that differ only by
\* surrounding blanks, records without a code or with an empty one, a failed
\* and a pending record, a record whose product_name is null, a record whose
\* fields exceed the column limits, a record that a later enrichment
\* replaces (same raw_id) with another brand, and a record whose brand and
\* category are null.  The first one carries nutrition values.
DocPool ==
    { EnrichedDoc(1, "success",
          WithNutrition(
              Data(PyStr(<<"1">>), PyStr(<<"A">>), PyStr(<<"X">>), PyStr(<<"K">>),
                   PyStr(<<"b">>), PyInt(3), PyInt(80)),
              [energy_kcal |-> PyFloat(4), fat |-> None]), Missing),
      EnrichedDoc(1, "success",
          Data(PyStr(<<"1">>), PyStr(<<"A">>), PyStr(<<"V">>), Missing,
               PyStr(<<"e">>), PyInt(4), PyInt(10)), Missing),
      EnrichedDoc(2, "success",
          Data(PyStr(<<"1">>), PyStr(<<"B">>), PyStr(<<" ", "X", " ">>), PyStr(<<>>),
               PyStr(<<"B", "C">>), None, None), Missing),
      EnrichedDoc(2, "success",
          Data(PyStr(<<"1">>), PyStr(<<"B">>), None, None,
               PyStr(<<"a">>), PyInt(1), PyInt(100)), Missing),
      EnrichedDoc(3, "success",
          Data(Missing, PyStr(<<"C">>), PyStr(<<"Z">>), PyStr(<<"K">>),
               PyStr(<<"a">>), PyInt(1), PyInt(100)), Missing),
      EnrichedDoc(3, "success",
          Data(PyStr(<<>>), PyStr(<<"C">>), PyStr(<<"Z">>), PyStr(<<"K">>),
               PyStr(<<"a">>), PyInt(1), PyInt(100)), Missing),
      EnrichedDoc(4, "failed", NoData, PyStr(<<"E">>)),
      EnrichedDoc(4, "pending",
          Data(PyStr(<<"2">>), PyStr(<<"P">>), PyStr(<<"W">>), PyStr(<<"K">>),
               PyStr(<<"c">>), PyInt(2), PyInt(55)), Missing),
      EnrichedDoc(5, "success",
          Data(PyStr(<<"2">>), None, PyStr(<<"Y">>), PyStr(<<"K">>),
               PyStr(<<"d">>), PyInt(4), PyInt(20)), Missing),
      EnrichedDoc(6, "success",
          Data(PyStr(<<"2">>), PyStr(Long501), PyStr(Long256), PyStr(<<" ", " ">>),
               None, PyInt(1), PyInt(100)), Missing) }

\* Records whose fields exceed the column limits.  The brands of the first
\* two differ in their 256th character only.  Their categories start with a
\* blank and differ in their 256th character only, which the strip makes the
\* 255th.  The third is short and has the code of the first.
LongPool ==
    { EnrichedDoc(1, "success",
          Data(PyStr(<<"1">>), PyStr(Long501), PyStr(Long256),
               PyStr(<<" ">> \o Rep("k", NAME_MAX)),
               PyStr(<<"B", "C">>), PyInt(1), PyInt(100)), Missing),
      EnrichedDoc(2, "success",
          Data(PyStr(<<"2">>), PyStr(<<"A">>), PyStr(Rep("x", NAME_MAX) \o <<"z">>),
               PyStr(<<" ">> \o Rep("k", NAME_MAX - 1) \o <<"q">>),
               PyStr(<<"b">>), PyInt(3), PyInt(80)), Missing),
      EnrichedDoc(3, "success",
          Data(PyStr(<<"1">>), PyStr(<<"B">>), PyStr(<<"X">>), PyStr(<<"K">>),
               PyStr(<<>>), PyInt(4), PyInt(10)), Missing) }

\* ------------------------------------------------------------------------
\* Document store: MongoDBManager on products_enriched
\* ------------------------------------------------------------------------

\* update_one({"raw_id": ...}, {"$set": doc}, upsert=True) on one stored
\* document: $set overwrites the keys the new document carries and leaves the
\* others as they are
SetFields(old, new) ==
    [raw_id |-> new.raw_id, status |-> new.status, data |-> new.data,
     error |-> IF new.error = Missing THEN old.error ELSE new.error]

insert_enriched_document(coll, doc) ==
    IF \E i \in 1..Len(coll) : coll[i].raw_id = doc.raw_id
    THEN [i \in 1..Len(coll) |->
             IF coll[i].raw_id = doc.raw_id THEN SetFields(coll[i], doc) ELSE coll[i]]
    ELSE Append(coll, doc)

\* query = {"status": status} if status else {}: a null or empty status
\* (here "") selects every document
StatusMatches(doc, status) == status = "" \/ doc.status = status

\* find(query): the documents that match, in the collection's order
FilterStatus(coll, status) ==
    SelectSeq(coll, LAMBDA doc : StatusMatches(doc, status))

\* seeded fault: the query carries no status
ExtractAnyStatus(coll, status, limit) == Take(coll, limit)

\* find(query).limit(limit)
get_enriched_documents(coll, status, limit) ==
    Take(FilterStatus(coll, status), limit)

\* ------------------------------------------------------------------------
\* Document store: MongoDBManager on products_raw
\* ------------------------------------------------------------------------

\* a payload as the collector hands it over: a dict, its items in insertion
\* order, each key once
Item(key, value) == [k |-> key, v |-> value]

\* the keys of the payloads below, in the order sort_keys=True puts them
SortedKeys ==
    <<"brands", "code", "fat", "nutriments", "product_name", "salt">>

\* the items of a dict with their keys in the given order
RECURSIVE ItemsInOrder(_, _)
ItemsInOrder(payload, keys) ==
    IF keys = <<>> THEN <<>>
    ELSE SelectSeq(payload, LAMBDA item : item.k = Head(keys))
           \o ItemsInOrder(payload, Tail(keys))

\* seeded fault: only the keys of the outermost dict are sorted
json_dumps_outermost(payload) == ItemsInOrder(payload, SortedKeys)

\* json.dumps(payload, sort_keys=True, ensure_ascii=False): the text lists
\* the items by sorted key, those of a nested dict too
RECURSIVE json_dumps(_)
json_dumps(payload) ==
    LET Dumped(item) ==
            IF item.v.t = "dict"
            THEN Item(item.k, PyDict(json_dumps(item.v.v)))
            ELSE item
    IN  ItemsInOrder([i \in DOMAIN payload |-> Dumped(payload[i])], SortedKeys)

\* hashlib.sha256(text.encode()).hexdigest(): the digest stands for the text
\* it was made of, two texts never sharing one
sha256(text) == [sha256 |-> text]

\* seeded fault: the payload is serialized without sort_keys
compute_raw_hash_unsorted(payload) == sha256(payload)

compute_raw_hash(payload) == sha256(json_dumps(payload))

\* the document insert_raw_document builds; the store adds _id
RawDocument(payload, source) ==
    [source |-> source, fetched_at |-> [t |-> "datetime"],
     raw_hash |-> compute_raw_hash(payload), payload |-> payload]

\* insert_one on products_raw, with the unique index _create_indexes puts on
\* raw_hash: DuplicateKeyError when a stored document has the hash
insert_one(coll, document) ==
    IF \E i \in DOMAIN coll : coll[i].raw_hash = document.raw_hash
    THEN [coll |-> coll, exc |-> "DuplicateKeyError"]
    ELSE [coll |-> Append(coll, [_id |-> Len(coll) + 1] @@ document),
          exc |-> ""]

\* source: str = "openfoodfacts"
OPENFOODFACTS == "openfoodfacts"

\* insert_raw_document: the collection it leaves and what it returns
insert_raw_document(coll, payload, source) ==
    LET Tried(document, r) ==
            IF r.exc = "" THEN [coll |-> r.coll, ret |-> document.raw_hash]
            ELSE [coll |-> r.coll, ret |-> None]
        Built(document) == Tried(document, insert_one(coll, document))
    IN  Built(RawDocument(payload, source))

\* insert_raw_documents_batch: the loop over payloads, from the collection
\* and the inserted_count reached so far
RECURSIVE insert_raw_documents_batch(_, _, _, _)
insert_raw_documents_batch(coll, payloads, source, inserted_count) ==
    IF payloads = <<>> THEN [coll |-> coll, ret |-> PyInt(inserted_count)]
    ELSE LET Tried(r) ==
                 insert_raw_documents_batch(
                     r.coll, Tail(payloads), source,
                     IF r.exc = "" THEN inserted_count + 1 ELSE inserted_count)
         IN  Tried(insert_one(coll, RawDocument(Head(payloads), source)))

\* the payloads the collector may hand over: two with the same items in
\* another order, one with another code, one with an item less, one empty
PayloadPool ==
    { <<Item("code", PyStr(<<"1">>)), Item("product_name", PyStr(<<"A">>))>>,
      <<Item("product_name", PyStr(<<"A">>)), Item("code", PyStr(<<"1">>))>>,
      <<Item("code", PyStr(<<"2">>)), Item("product_name", PyStr(<<"A">>))>>,
      <<Item("code", PyStr(<<"1">>))>>,
      <<>> }

\* a payload with a nested dict
Nested(code, nutriments) ==
    <<Item("code", PyStr(code)), Item("nutriments", PyDict(nutriments))>>

Reversed(s) == [i \in DOMAIN s |-> s[Len(s) + 1 - i]]

FatSalt(fat, salt) == <<Item("fat", PyInt(fat)), Item("salt", PyInt(salt))>>

\* payloads with a nested dict: one content with its keys in each of the
\* four orders, and two other contents
NestedPool ==
    { Nested(<<"1">>, FatSalt(1, 2)),
      Reversed(Nested(<<"1">>, FatSalt(1, 2))),
      Nested(<<"1">>, Reversed(FatSalt(1, 2))),
      Reversed(Nested(<<"1">>, Reversed(FatSalt(1, 2)))),
      Nested(<<"1">>, FatSalt(2, 1)),
      Nested(<<"1">>, <<Item("fat", PyInt(1))>>) }

\* the lists of length 1 to n over a set
ListsUpTo(S, n) == UNION {[1..k -> S] : k \in 1..n}

\* ------------------------------------------------------------------------
\* Document store: batch upsert into products_enriched
\* ------------------------------------------------------------------------

\* insert_enriched_documents_batch: the UpdateOne operations in their order,
\* for the documents that have a raw_id; n counts the documents upserted and
\* those modified
RECURSIVE bulk_write(_, _, _)
bulk_write(coll, operations, n) ==
    IF operations = <<>> THEN [coll |-> coll, ret |-> PyInt(n)]
    ELSE LET Written(after) ==
                 bulk_write(after, Tail(operations),
                            IF after # coll THEN n + 1 ELSE n)
         IN  Written(insert_enriched_document(coll, Head(operations)))

\* seeded fault: the batch inserts its documents instead of upserting them
insert_enriched_documents_anew(coll, enriched_docs) ==
    [coll |-> coll \o enriched_docs, ret |-> PyInt(Len(enriched_docs))]

insert_enriched_documents_batch(coll, enriched_docs) ==
    LET Operations(docs) ==
            IF docs = <<>> THEN [coll |-> coll, ret |-> PyInt(0)]
            ELSE bulk_write(coll, docs, 0)
    IN  Operations(SelectSeq(enriched_docs, LAMBDA doc : Truthy(doc.raw_id)))

R1 == PyStr(<<"r", "1">>)

R2 == PyStr(<<"r", "2">>)

AttributeErrorOfNone ==
    [code |-> "AttributeError",
     message |-> <<"'", "NoneType", "' object has no attribute '", "lower", "'">>]

\* the records the store is given: for two raw documents a success and a
\* failed record each, as enrich_product builds them, and a success record
\* whose raw_id is empty
UpsertPool ==
    { EnrichedDoc(R1, "success",
          Data(PyStr(<<"1">>), PyStr(<<"A">>), PyStr(<<"X">>), PyStr(<<"K">>),
               PyStr(<<"b">>), PyInt(3), PyInt(80)), Missing),
      EnrichedDoc(R1, "failed", NoData, AttributeErrorOfNone),
      EnrichedDoc(R2, "success",
          Data(PyStr(<<"2">>), PyStr(<<"B">>), PyStr(<<"X">>), PyStr(<<"K">>),
               PyStr(<<"a">>), PyInt(1), PyInt(100)), Missing),
      EnrichedDoc(R2, "failed", NoData, AttributeErrorOfNone),
      EnrichedDoc(PyStr(<<>>), "success",
          Data(PyStr(<<"3">>), PyStr(<<"C">>), PyStr(<<"X">>), PyStr(<<"K">>),
               PyStr(<<"a">>), PyInt(1), PyInt(100)), Missing) }

\* ------------------------------------------------------------------------
\* Relational store: tables brands, categories, products
\* ------------------------------------------------------------------------

EmptyTables == [brands |-> {}, categories |-> {}, products |-> {}]

EmptyPending == [brands |-> {}, categories |-> {}, products |-> <<>>]

EmptyCaches == [brands |-> <<>>, categories |-> <<>>]

MaxId(rows) == IF rows = {} THEN 0 ELSE CHOOSE n \in {r.id : r \in rows} :
                                            \A r \in rows : r.id <= n

\* INTEGER PRIMARY KEY of a new row
NextId(rows) == MaxId(rows) + 1

\* the constraint an INSERT into brands or categories violates, "" when none:
\* unique=True on the name, or the primary key
NameRowConflict(rows, row) ==
    IF \E r \in rows : r.name = row.name THEN "name"
    ELSE IF \E r \in rows : r.id = row.id THEN "id"
    ELSE ""

\* unique=True on products.code
CodeConflict(rows, code) == \E r \in rows : r.code = code

IntegrityError(table, column) == <<"IntegrityError", table, column>>

NoError == <<>>

\* the pending INSERTs of one of the two name tables; a row whose object
\* carries no id (0) gets the next one
RECURSIVE InsertNameRows(_, _, _)
InsertNameRows(table, rows, pend) ==
    IF pend = {} THEN [rows |-> rows, exc |-> NoError]
    ELSE LET p == CHOOSE x \in pend : TRUE
             row == IF p.id = 0 THEN [p EXCEPT !.id = NextId(rows)] ELSE p
             c == NameRowConflict(rows, row)
         IN  IF c # "" THEN [rows |-> rows, exc |-> IntegrityError(table, c)]
             ELSE InsertNameRows(table, rows \cup {row}, pend \ {p})

RECURSIVE InsertProducts(_, _)
InsertProducts(rows, pend) ==
    IF pend = <<>> THEN [rows |-> rows, exc |-> NoError]
    ELSE IF CodeConflict(rows, Head(pend).code)
         THEN [rows |-> rows, exc |-> IntegrityError("products", "code")]
         ELSE InsertProducts(
                  rows \cup {[Head(pend) EXCEPT !.id = NextId(rows)]}, Tail(pend))

\* an entity the pipeline holds in a cache: the row id its object carries and
\* the object's state in the ORM
\*   new        inserted by the open transaction
\*   persistent attached to the open session, its row committed earlier
\*   pending    attached to the open session, its INSERT not yet flushed
\*   detached   left over from a closed session, its row committed
\*   transient  left over from a transaction that was rolled back
Entity(id, st) == [id |-> id, st |-> st]

MapStates(cache, f(_)) ==
    [n \in DOMAIN cache |-> Entity(cache[n].id, f(cache[n].st))]

MapCaches(caches, f(_)) ==
    [brands |-> MapStates(caches.brands, f),
     categories |-> MapStates(caches.categories, f)]

Flushed(st) == IF st = "pending" THEN "new" ELSE st

\* Session.flush(), also run by autoflush before every query: the pending
\* INSERTs reach the open transaction, brands and categories before the
\* products that reference them.  The committed tables m.db are not touched.
Flush(m) ==
    LET Inserted(b, c, p) ==
            IF b.exc # NoError THEN [m |-> m, exc |-> b.exc]
            ELSE IF c.exc # NoError THEN [m |-> m, exc |-> c.exc]
            ELSE IF p.exc # NoError THEN [m |-> m, exc |-> p.exc]
            ELSE [m |-> [m EXCEPT !.tx = [brands |-> b.rows, categories |-> c.rows,
                                          products |-> p.rows],
                                  !.pend = EmptyPending,
                                  !.cache = MapCaches(m.cache, Flushed)],
                  exc |-> NoError]
    IN  Inserted(InsertNameRows("brands", m.tx.brands, m.pend.brands),
                 InsertNameRows("categories", m.tx.categories, m.pend.categories),
                 InsertProducts(m.tx.products, m.pend.products))

\* seeded fault: a session that queries without flushing first
QueryWithoutFlush(m) == [m |-> m, exc |-> NoError]

\* autoflush: a query flushes the session before it reads
Autoflush(m) == Flush(m)

\* ------------------------------------------------------------------------
\* ETLPipeline: get-or-create of brands and categories
\* ------------------------------------------------------------------------

NoEntity == [id |-> 0, st |-> "none"]

\* a call the pipeline makes on its session: commit, rollback, close, or a
\* round trip for a brand or category name (a query by name, an INSERT)
SessionCall(op, kind, key, exc) == [op |-> op, kind |-> kind, key |-> key, exc |-> exc]

\* the call is added to those made so far
Logged(m, call) == [m EXCEPT !.log = Append(@, call)]

Result(m, ent, exc) == [m |-> m, ent |-> ent, exc |-> exc]

CachePut(m, kind, name, ent) ==
    [m EXCEPT !.cache[kind] =
        [n \in DOMAIN m.cache[kind] \cup {name} |->
            IF n = name THEN ent ELSE m.cache[kind][n]]]

\* seeded fault: the flush of a new brand or category is made durable at once
AddAndCommit(m, kind, key) ==
    LET Durable(f) == [f EXCEPT !.m.db = f.m.tx]
    IN  Durable(Flush([m EXCEPT !.pend[kind] = @ \cup {[id |-> 0, name |-> key]}]))

\* session.add(entity); session.flush(): the INSERT of a new brand or
\* category reaches the open transaction, where it gets its id
AddAndFlush(m, kind, key) ==
    Flush([m EXCEPT !.pend[kind] = @ \cup {[id |-> 0, name |-> key]}])

\* seeded fault: the query by name misses the row
QueryFindsNothing(m, kind, key) == {}

\* session.query(...).filter_by(name=name).first(), after its autoflush
QueryByName(m, kind, key) == {r \in m.tx[kind] : r.name = key}

\* seeded fault: the cache is never found to hold a name
InCacheNever(m, kind, key) == FALSE

\* name in self.brands_cache, name in self.categories_cache
InCache(m, kind, key) == key \in DOMAIN m.cache[kind]

\* the body shared by _get_or_create_brand and _get_or_create_category
GetOrCreate(m, kind, name) ==
    LET Cached(m2, key, ent) == Result(CachePut(m2, kind, key, ent), ent, NoError)
        Created(m2, g, key) ==
            IF g.exc # NoError THEN Result(m2, NoEntity, g.exc)
            ELSE Cached(Logged(g.m, SessionCall("insert", kind, key, NoError)), key,
                        Entity((CHOOSE r \in g.m.tx[kind] : r.name = key).id, "new"))
        Found(m2, found, key) ==
            IF found # {}
            THEN Cached(m2, key, Entity((CHOOSE r \in found : TRUE).id, "persistent"))
            ELSE Created(m2, AddAndFlush(m2, kind, key), key)
        Queried(f, key) ==
            IF f.exc # NoError THEN Result(m, NoEntity, f.exc)
            ELSE Found(Logged(f.m, SessionCall("query", kind, key, NoError)),
                       QueryByName(f.m, kind, key), key)
        Named(key) ==
            IF InCache(m, kind, key)
            THEN Result(m, m.cache[kind][key], NoError)
            ELSE Queried(Autoflush(m), key)
    IN  IF ~Truthy(name) THEN Result(m, NoEntity, NoError)
        ELSE IF ~IsStr(name) THEN Result(m, NoEntity, <<"AttributeError">>)
        ELSE Named(Take(Strip(name.v), NAME_MAX))

get_or_create_brand(m, name) == GetOrCreate(m, "brands", name)

get_or_create_category(m, name) == GetOrCreate(m, "categories", name)

\* the foreign key a product gets from the entity it references
Ref(ent) == IF ent = NoEntity THEN None ELSE PyInt(ent.id)

Cascaded(st) ==
    CASE st = "detached"  -> "persistent"
      [] st = "transient" -> "pending"
      [] OTHER            -> st

\* save-update cascade of product.brand / product.category: an object that is
\* not in the session joins it when a product of the session references it; a
\* transient one becomes a pending INSERT that keeps the id its object carries
Cascade(m, kind, name) ==
    IF ~Truthy(name) \/ ~IsStr(name) THEN m
    ELSE
      LET key == Take(Strip(name.v), NAME_MAX)
          ent == m.cache[kind][key]
      IN  [m EXCEPT
             !.cache[kind][key] = Entity(ent.id, Cascaded(ent.st)),
             !.pend[kind] = IF ent.st = "transient"
                            THEN @ \cup {[id |-> ent.id, name |-> key]}
                            ELSE @,
             !.log = IF ent.st = "transient"
                     THEN Append(@, SessionCall("insert", kind, key, NoError))
                     ELSE @]

\* ------------------------------------------------------------------------
\* ETLPipeline._load_product
\* ------------------------------------------------------------------------

Loaded(m, ret, exc) == [m |-> m, ret |-> ret, exc |-> exc]

\* data.get("product_name", "")
NameOf(data) == Get(data, "product_name", PyStr(<<>>))

\* data.get("nutriscore_grade") or ""
GradeOf(data) ==
    IF Truthy(data.nutriscore_grade) THEN data.nutriscore_grade ELSE PyStr(<<>>)

\* data.get(key): a missing key reads as null
GetOrNone(data, key) == Get(data, key, None)

BrandOf(data) == Get(data, "brands", PyStr(<<>>))

CategoryOf(data) == Get(data, "category", PyStr(<<>>))

\* seeded fault: the two entities are handed back in each other's place
ResolveSwapped(m, data) ==
    LET Both(b, c) == [m |-> c.m, brand |-> c.ent, category |-> b.ent, exc |-> c.exc]
        First(b) ==
            IF b.exc # NoError
            THEN [m |-> b.m, brand |-> NoEntity, category |-> NoEntity, exc |-> b.exc]
            ELSE Both(b, get_or_create_category(b.m, CategoryOf(data)))
    IN  First(get_or_create_brand(m, BrandOf(data)))

\* both get-or-create calls, the brand first
Resolve(m, data) ==
    LET Both(b, c) == [m |-> c.m, brand |-> b.ent, category |-> c.ent, exc |-> c.exc]
        First(b) ==
            IF b.exc # NoError
            THEN [m |-> b.m, brand |-> NoEntity, category |-> NoEntity, exc |-> b.exc]
            ELSE Both(b, get_or_create_category(b.m, CategoryOf(data)))
    IN  First(get_or_create_brand(m, BrandOf(data)))

CascadeBoth(m, data) ==
    Cascade(Cascade(m, "brands", BrandOf(data)), "categories", CategoryOf(data))

\* seeded fault: the update writes the fields without the [:500] and [:1]
\* slices of the create path
SetFieldsUncut(existing, data) ==
    [existing EXCEPT !.product_name = NameOf(data),
                     !.nutriscore_grade = GradeOf(data),
                     !.nova_group = GetOrNone(data, "nova_group"),
                     !.quality_score = GetOrNone(data, "quality_score")]

\* seeded fault: the update stamps the row as if it were inserted anew
SetFieldsAndCreatedAt(existing, data) ==
    [existing EXCEPT !.product_name = PyStr(Take(NameOf(data).v, PRODUCT_NAME_MAX)),
                     !.nutriscore_grade = PyStr(Take(GradeOf(data).v, GRADE_MAX)),
                     !.nova_group = GetOrNone(data, "nova_group"),
                     !.quality_score = GetOrNone(data, "quality_score"),
                     !.created_at = existing.created_at + 1]

\* existing.product_name = ...[:500] and the three assignments after it
SetProductFields(existing, data) ==
    [existing EXCEPT !.product_name = PyStr(Take(NameOf(data).v, PRODUCT_NAME_MAX)),
                     !.nutriscore_grade = PyStr(Take(GradeOf(data).v, GRADE_MAX)),
                     !.nova_group = GetOrNone(data, "nova_group"),
                     !.quality_score = GetOrNone(data, "quality_score")]

\* not found: brand and category are resolved first, then the row is built
\* and added to the session, to be inserted by the next flush
CreateProduct(m, code, data, now) ==
    LET Added(m2, row) ==
            Loaded([m2 EXCEPT !.pend.products = Append(@, row)], TRUE, NoError)
        Resolved(r) ==
            IF r.exc # NoError THEN Loaded(r.m, FALSE, r.exc)
            ELSE IF ~IsStr(NameOf(data)) \/ ~IsStr(GradeOf(data))
            THEN Loaded(r.m, FALSE, <<"TypeError">>)
            ELSE Added(CascadeBoth(r.m, data),
                       [id |-> 0, code |-> code,
                        product_name |-> PyStr(Take(NameOf(data).v, PRODUCT_NAME_MAX)),
                        brand_id |-> Ref(r.brand),
                        category_id |-> Ref(r.category),
                        nutriscore_grade |-> PyStr(Take(GradeOf(data).v, GRADE_MAX)),
                        nova_group |-> GetOrNone(data, "nova_group"),
                        quality_score |-> GetOrNone(data, "quality_score"),
                        created_at |-> now])
    IN  Resolved(Resolve(m, data))

\* seeded fault: the update deletes the row and inserts the product anew
UpdateByReplacing(m, existing, data) ==
    CreateProduct([m EXCEPT !.tx.products = @ \ {existing}],
                  existing.code, data, existing.created_at)

\* seeded fault: an update without a brand or a category leaves the reference
\* the row had
UpdateKeepingReferences(m, existing, data) ==
    LET Written(m2, row) ==
            Loaded([m2 EXCEPT !.tx.products =
                       {IF p.id = existing.id THEN row ELSE p : p \in @}],
                   TRUE, NoError)
        Resolved(r) ==
            IF r.exc # NoError THEN Loaded(r.m, FALSE, r.exc)
            ELSE Written(CascadeBoth(r.m, data),
                         [SetProductFields(existing, data) EXCEPT
                             !.brand_id = IF r.brand = NoEntity THEN @
                                          ELSE Ref(r.brand),
                             !.category_id = IF r.category = NoEntity THEN @
                                             ELSE Ref(r.category)])
    IN  IF ~IsStr(NameOf(data)) \/ ~IsStr(GradeOf(data))
        THEN Loaded(m, FALSE, <<"TypeError">>)
        ELSE Resolved(Resolve(m, data))

\* existing: the fields are set first, then brand and category are resolved
UpdateProduct(m, existing, data) ==
    LET Written(m2, row) ==
            Loaded([m2 EXCEPT !.tx.products =
                       {IF p.id = existing.id THEN row ELSE p : p \in @}],
                   TRUE, NoError)
        Resolved(r) ==
            IF r.exc # NoError THEN Loaded(r.m, FALSE, r.exc)
            ELSE Written(CascadeBoth(r.m, data),
                         [SetProductFields(existing, data) EXCEPT
                             !.brand_id = Ref(r.brand),
                             !.category_id = Ref(r.category)])
    IN  IF ~IsStr(NameOf(data)) \/ ~IsStr(GradeOf(data))
        THEN Loaded(m, FALSE, <<"TypeError">>)
        ELSE Resolved(Resolve(m, data))

\* seeded fault: the lookup by code never finds the row
FindNoProduct(m, code) == {}

\* session.query(Product).filter_by(code=code).first(), after its autoflush
FindProduct(m, code) == {p \in m.tx.products : p.code = code}

\* the lookup by code and the branch it selects
UpsertProduct(m, f, code, data, now) ==
    LET Branch(existing) ==
            IF existing # {}
            THEN UpdateProduct(f.m, CHOOSE p \in existing : TRUE, data)
            ELSE CreateProduct(f.m, code, data, now)
    IN  IF f.exc # NoError THEN Loaded(m, FALSE, f.exc)
        ELSE Branch(FindProduct(f.m, code))

\* seeded fault: brand and category are resolved before the code is tested
load_product_resolving_first(m, enriched_doc, now) ==
    LET Skipped(r) == Loaded(r.m, FALSE, r.exc)
        Coded(data, code) ==
            IF ~Truthy(code) THEN Skipped(Resolve(m, data))
            ELSE UpsertProduct(m, Autoflush(m), code, data, now)
        WithData(data) == Coded(data, GetOrNone(data, "code"))
    IN  WithData(Get(enriched_doc, "data", NoData))

Committed(st) == IF st = "new" THEN "persistent" ELSE st

\* Session.commit(): a flush, then the COMMIT, which makes the open
\* transaction the committed tables
CommitSession(m) ==
    LET Called(exc2) == SessionCall("commit", "", <<>>, exc2)
        Flushed2(f) ==
            IF f.exc # NoError THEN [m |-> Logged(f.m, Called(f.exc)), exc |-> f.exc]
            ELSE [m |-> Logged([f.m EXCEPT !.db = f.m.tx,
                                           !.cache = MapCaches(@, Committed)],
                               Called(NoError)),
                  exc |-> NoError]
    IN  Flushed2(Flush(m))

\* seeded fault: the commit is inside the loop, after each product
load_product_committing(m, enriched_doc, now) ==
    LET Both(r, c) == Loaded(c.m, r.ret, c.exc)
        Done(r) == IF r.exc # NoError THEN r ELSE Both(r, CommitSession(r.m))
        Coded(data, code) ==
            IF ~Truthy(code) THEN Loaded(m, FALSE, NoError)
            ELSE Done(UpsertProduct(m, Autoflush(m), code, data, now))
        WithData(data) == Coded(data, GetOrNone(data, "code"))
    IN  WithData(Get(enriched_doc, "data", NoData))

load_product(m, enriched_doc, now) ==
    LET Coded(data, code) ==
            IF ~Truthy(code) THEN Loaded(m, FALSE, NoError)
            ELSE UpsertProduct(m, Autoflush(m), code, data, now)
        WithData(data) == Coded(data, GetOrNone(data, "code"))
    IN  WithData(Get(enriched_doc, "data", NoData))

\* ------------------------------------------------------------------------
\* Enrichment engine: enricher.py
\* ------------------------------------------------------------------------

\* seeded fault: the weights of b and c are exchanged
ScoresWithBAndCSwapped == [a |-> 100, b |-> 60, c |-> 80, d |-> 40, e |-> 20]

NUTRISCORE_SCORES == [a |-> 100, b |-> 80, c |-> 60, d |-> 40, e |-> 20]

LowerLetters ==
    <<"a", "b", "c", "d", "e", "f", "g", "h", "i", "j", "k", "l", "m",
      "n", "o", "p", "q", "r", "s", "t", "u", "v", "w", "x", "y", "z">>

UpperLetters ==
    <<"A", "B", "C", "D", "E", "F", "G", "H", "I", "J", "K", "L", "M",
      "N", "O", "P", "Q", "R", "S", "T", "U", "V", "W", "X", "Y", "Z">>

IndexIn(letters, c) == CHOOSE i \in DOMAIN letters : letters[i] = c

IsUpper(c) == \E i \in DOMAIN UpperLetters : UpperLetters[i] = c

IsLower(c) == \E i \in DOMAIN LowerLetters : LowerLetters[i] = c

ToLower(c) == IF IsUpper(c) THEN LowerLetters[IndexIn(UpperLetters, c)] ELSE c

ToUpper(c) == IF IsLower(c) THEN UpperLetters[IndexIn(LowerLetters, c)] ELSE c

\* str.lower()
Lower(s) == [i \in DOMAIN s |-> ToLower(s[i])]

\* str.title(): a letter that follows a letter is lowered, any other raised
Title(s) ==
    [i \in DOMAIN s |->
        IF i > 1 /\ (IsUpper(s[i - 1]) \/ IsLower(s[i - 1]))
        THEN ToLower(s[i]) ELSE ToUpper(s[i])]

\* str.replace("en:", "")
RECURSIVE RemoveEn(_)
RemoveEn(s) ==
    IF s = <<>> THEN <<>>
    ELSE IF Len(s) >= 3 /\ SubSeq(s, 1, 3) = <<"e", "n", ":">>
    THEN RemoveEn(SubSeq(s, 4, Len(s)))
    ELSE <<Head(s)>> \o RemoveEn(Tail(s))

\* str.replace("-", " ")
DashToSpace(s) == [i \in DOMAIN s |-> IF s[i] = "-" THEN " " ELSE s[i]]

\* tag.replace("en:", "").replace("-", " ").title()
FormatCategory(s) == Title(DashToSpace(RemoveEn(s)))

\* type(x).__name__
TypeName(x) ==
    CASE x.t = "none" -> "NoneType"
      [] x.t = "nan"  -> "float"
      [] OTHER        -> x.t

\* an exception: its class and the pieces of its message
Exception(code, message) == [code |-> code, message |-> message]

NoException == Exception("", <<>>)

NoAttribute(x, attr) ==
    Exception("AttributeError",
              <<"'", TypeName(x), "' object has no attribute '", attr, "'">>)

Returns(v) == [exc |-> NoException, v |-> v]

Raises(e) == [exc |-> e, v |-> None]

PayloadKeys ==
    {"code", "product_name", "brands", "nutriscore_grade", "nova_group",
     "completeness", "main_category", "categories_tags"}

\* {}: what raw_doc.get("payload", {}) gives a document without payload
EmptyPayload == PyDict([k \in PayloadKeys |-> Missing])

Payload(code, name, brands, grade, nova, completeness, main, tags) ==
    PyDict([code |-> code, product_name |-> name, brands |-> brands,
            nutriscore_grade |-> grade, nova_group |-> nova,
            completeness |-> completeness, main_category |-> main,
            categories_tags |-> tags])

\* NUTRISCORE_SCORES.get(nutriscore, 0)
NutriscorePoints(nutriscore) ==
    IF Len(nutriscore) = 1 /\ nutriscore[1] \in DOMAIN NUTRISCORE_SCORES
    THEN NUTRISCORE_SCORES[nutriscore[1]] ELSE 0

\* seeded fault: the sign is dropped before the truncation
IntOfAbsHalves(halves) ==
    IF halves >= 0 THEN halves \div 2 ELSE (0 - halves) \div 2

\* int(x) of x = halves / 2: truncation toward zero
IntOfHalves(halves) ==
    IF halves >= 0 THEN halves \div 2 ELSE 0 - ((0 - halves) \div 2)

\* _calculate_quality_score.  The score is carried doubled, in halves, so
\* that points * 0.5 + completeness * 50 stays an integer: a whole
\* completeness k adds 100 k halves, one of q quarters adds 25 q.
calculate_quality_score(payload) ==
    LET Summed(points, completeness) ==
            CASE completeness.t = "int" ->
                     Returns(PyInt(IntOfHalves(Min2(points + 100 * completeness.v, 200))))
              [] completeness.t = "float" ->
                     Returns(PyInt(IntOfHalves(Min2(points + 25 * completeness.v, 200))))
              [] completeness.t = "nan" ->
                     Raises(Exception("ValueError",
                                      <<"cannot convert float NaN to integer">>))
              [] completeness.t = "dict" ->
                     Raises(Exception("TypeError",
                         <<"unsupported operand type(s) for *: 'dict' and 'int'">>))
              [] OTHER ->
                     Raises(Exception("TypeError",
                         <<"unsupported operand type(s) for +=: 'float' and '",
                           TypeName(completeness), "'">>))
        OrZero(completeness) == IF Truthy(completeness) THEN completeness ELSE PyInt(0)
        Graded(nutriscore) ==
            IF ~IsStr(nutriscore) THEN Raises(NoAttribute(nutriscore, "lower"))
            ELSE Summed(NutriscorePoints(Lower(nutriscore.v)),
                        OrZero(Get(payload.v, "completeness", PyInt(0))))
    IN  IF payload.t # "dict" THEN Raises(NoAttribute(payload, "get"))
        ELSE Graded(Get(payload.v, "nutriscore_grade", PyStr(<<>>)))

\* seeded fault: another sentinel
Uncategorized ==
    <<"U", "n", "c", "a", "t", "e", "g", "o", "r", "i", "z", "e", "d">>

\* "Non catégorisé"
NonCategorise ==
    <<"N", "o", "n", " ", "c", "a", "t", "é", "g", "o", "r", "i", "s", "é">>

\* seeded fault: the list of tags is looked at before main_category
categorize_product_tags_first(payload) ==
    LET Formatted(tag) ==
            IF IsStr(tag) THEN Returns(PyStr(FormatCategory(tag.v)))
            ELSE Raises(NoAttribute(tag, "replace"))
        FromMain(main_cat) ==
            IF Truthy(main_cat) THEN Formatted(main_cat)
            ELSE Returns(PyStr(NonCategorise))
        FromTags(categories) ==
            IF Truthy(categories) /\ categories.t = "list"
            THEN Formatted(categories.v[1])
            ELSE FromMain(Get(payload.v, "main_category", PyStr(<<>>)))
    IN  IF payload.t # "dict" THEN Raises(NoAttribute(payload, "get"))
        ELSE FromTags(Get(payload.v, "categories_tags", PyList(<<>>)))

\* _categorize_product
categorize_product(payload) ==
    LET Formatted(tag) ==
            IF IsStr(tag) THEN Returns(PyStr(FormatCategory(tag.v)))
            ELSE Raises(NoAttribute(tag, "replace"))
        FromTags(categories) ==
            IF ~Truthy(categories) THEN Returns(PyStr(NonCategorise))
            ELSE CASE categories.t = "list" -> Formatted(categories.v[1])
                   [] categories.t = "str"  -> Formatted(PyStr(<<categories.v[1]>>))
                   [] categories.t = "dict" -> Raises(Exception("KeyError", <<"0">>))
                   [] OTHER -> Raises(Exception("TypeError",
                                   <<"'", TypeName(categories),
                                     "' object is not subscriptable">>))
        FromMain(main_cat) ==
            IF Truthy(main_cat) THEN Formatted(main_cat)
            ELSE FromTags(Get(payload.v, "categories_tags", PyList(<<>>)))
    IN  IF payload.t # "dict" THEN Raises(NoAttribute(payload, "get"))
        ELSE FromMain(Get(payload.v, "main_category", PyStr(<<>>)))

\* the body of the try: the two computations, then the "data" of the record
TryBody(payload) ==
    LET Built(quality_score, category) ==
            Returns(Data(Get(payload.v, "code", PyStr(<<>>)),
                         Get(payload.v, "product_name", PyStr(<<>>)),
                         Get(payload.v, "brands", PyStr(<<>>)),
                         category,
                         Get(payload.v, "nutriscore_grade", PyStr(<<>>)),
                         Get(payload.v, "nova_group", None),
                         quality_score))
        Categorized(quality_score, c) ==
            IF c.exc # NoException THEN Raises(c.exc) ELSE Built(quality_score, c.v)
        Scored(q) ==
            IF q.exc # NoException THEN Raises(q.exc)
            ELSE Categorized(q.v, categorize_product(payload))
    IN  Scored(calculate_quality_score(payload))

\* datetime.utcnow().isoformat() + "Z"
Timestamp == [t |-> "datetime"]

\* the _id the document store gives a document it inserts
ObjectId(n) == [t |-> "oid", v |-> n]

HexDigits == <<"1", "2", "3", "4", "5", "6", "7", "8", "9", "a", "b", "c", "d", "e", "f">>

\* str(x): the hexadecimal text of an ObjectId, a string as it is
Str(x) == IF x.t = "oid" THEN PyStr(<<"o", HexDigits[x.v]>>) ELSE x

\* str(raw_doc.get("_id", ""))
RawId(doc) == Str(Get(doc, "_id", PyStr(<<>>)))

SuccessRecord(doc, data) ==
    [raw_id |-> RawId(doc), status |-> "success", enriched_at |-> Timestamp,
     data |-> data]

FailedRecord(doc, e) ==
    [raw_id |-> RawId(doc), status |-> "failed", enriched_at |-> Timestamp,
     data |-> NoData, error |-> [code |-> e.code, message |-> e.message]]

PendingRecord(doc) ==
    [raw_id |-> RawId(doc), status |-> "pending", enriched_at |-> None,
     data |-> NoData]

\* the classes `except Exception` catches
ExceptionClasses ==
    {"AttributeError", "TypeError", "ValueError", "KeyError", "IndexError",
     "OverflowError"}

\* seeded fault: the handler names one class only
CatchesValueErrorOnly(e) == e.code = "ValueError"

\* except Exception as e
Catches(e) == e.code \in ExceptionClasses

\* seeded fault: the handler compares with the length of the range
IsPastLastAttempt(a, retries) == a = retries + 1

\* if attempt == max_retries
IsLastAttempt(a, retries) == a = retries

\* seeded fault: the range is one short, range(max_retries)
HasNextOneShort(a, retries) == a < retries

\* for attempt in range(max_retries + 1): a is the value the range yields next
HasNext(a, retries) == a < retries + 1

\* def enrich_product(raw_doc, max_retries=2)
DEFAULT_MAX_RETRIES == 2

\* the retry loop of enrich_product from the attempt a on: what the call
\* returns, or the exception that leaves it
RECURSIVE EnrichFrom(_, _, _)
EnrichFrom(doc, retries, a) ==
    LET Tried(t) ==
            IF t.exc = NoException THEN Returns(SuccessRecord(doc, t.v))
            ELSE IF ~Catches(t.exc) THEN Raises(t.exc)
            ELSE IF IsLastAttempt(a, retries) THEN Returns(FailedRecord(doc, t.exc))
            ELSE EnrichFrom(doc, retries, a + 1)
    IN  IF ~HasNext(a, retries) THEN Returns(PendingRecord(doc))
        ELSE Tried(TryBody(Get(doc, "payload", EmptyPayload)))

enrich_product(raw_doc, retries) == EnrichFrom(raw_doc, retries, 0)

\* ------------------------------------------------------------------------
\* State
\* ------------------------------------------------------------------------

VARIABLES
    enriched,          \* collection products_enriched, in insertion order
    db,                \* the committed tables of the relational store
    schema,            \* TRUE once create_tables() has created the tables
    session,           \* self.session: its state, open transaction and pending INSERTs
    brands_cache,      \* self.brands_cache
    categories_cache,  \* self.categories_cache
    pc,                \* position of run(): idle, extract, load, except, finally
    enriched_docs,     \* run(): the extracted records
    idx,               \* run(): position of the for loop in enriched_docs
    loaded,            \* run(): counter of loaded products
    exc,               \* the exception being propagated, NoError when none
    clock,             \* number of run() invocations started; stamps created_at
    ret,               \* what the last _load_product call returned
    last,              \* the run that finished last: the collection it ran
                       \* against, its outcome and the tables it left
    calls,             \* the calls run() has made on its session, in order
    raw_doc,           \* enrich_product: the raw document it was called with
    max_retries,       \* enrich_product: its max_retries argument
    attempt,           \* enrich_product: the value range() yields next
    outcomes,          \* what each attempt made so far did: "ok" or "raised"
    result,            \* what enrich_product returned
    epc,               \* position of enrich_product: idle, loop, returned, raised
    previous,          \* the call before this one: its arguments and its record
    raw,               \* collection products_raw, in insertion order
    mongo_call,        \* the last call of a MongoDBManager insert: its name,
                       \* its argument and the collection it found
    mongo_ret,         \* what that call returned
    pipelines,         \* the ETLPipeline objects: self.session (the run() whose
                       \* get_session() made it, 0 for None) and the two caches
                       \* (for each name, the run() that cached its entity)
    invocations,       \* the run() calls in progress: the object each runs on
                       \* and its position
    uses,              \* for each run(): the sessions it has called and the
                       \* cached entities it was handed
    script,            \* scripts/enrich_data.py main(): its position, raw_docs,
                       \* enriched_docs, stats and count
    collector,         \* the Collector object: max_retries and stats
    request,           \* the call of Collector._request in progress: the next
                       \* attempt, what the attempts so far met, what it returns
    collecting,        \* the call of Collector.collect in progress: its
                       \* arguments, locals and position
    store,             \* the committed tables two concurrent runs load into
    runs               \* the two concurrent run() calls: position, batch,
                       \* open transaction, pending statement, cache, outcome

vars ==
    <<enriched, db, schema, session, brands_cache, categories_cache, pc,
      enriched_docs, idx, loaded, exc, clock, ret, last, calls,
      raw_doc, max_retries, attempt, outcomes, result, epc, previous,
      raw, mongo_call, mongo_ret, pipelines, invocations, uses, script,
      collector, request, collecting, store, runs>>

runVars == <<enriched_docs, idx, loaded, ret>>

histVars == <<last>>

enrichVars == <<raw_doc, max_retries, attempt, outcomes, result, epc, previous>>

loadVars ==
    <<enriched, db, schema, session, brands_cache, categories_cache, pc,
      enriched_docs, idx, loaded, exc, clock, ret, last, calls>>

NoRawDoc == [_id |-> Missing, payload |-> Missing]

NoResult == [status |-> "none"]

mongoVars == <<raw, mongo_call, mongo_ret>>

NoMongoCall == [op |-> "none"]

\* no insert has been called on the document store
MongoIdle ==
    /\ raw = <<>>
    /\ mongo_call = NoMongoCall
    /\ mongo_ret = None

overlapVars == <<pipelines, invocations, uses>>

\* the pipeline objects and the run() calls that may overlap
Pipelines == {1, 2}

Invocations == {1, 2}

\* ETLPipeline.__init__
NewPipeline == [session |-> 0, brands_cache |-> <<>>, categories_cache |-> <<>>]

NotStarted == [pc |-> "idle", self |-> 0, idx |-> 1, overlapped |-> FALSE]

\* no run() has been called on any pipeline object
OverlapIdle ==
    /\ pipelines = [o \in Pipelines |-> NewPipeline]
    /\ invocations = [t \in Invocations |-> NotStarted]
    /\ uses = {}

scriptVars == <<script>>

\* main() has not been called
NotCalled ==
    [pc |-> "idle", raw_docs |-> <<>>, i |-> 1, enriched_docs |-> <<>>,
     stats |-> <<>>, count |-> None, calls |-> 0]

ScriptIdle == script = NotCalled

collectVars == <<collector, request, collecting>>

\* self.stats of Collector.__init__
NoStats ==
    [collected |-> 0, errors |-> 0, timeouts |-> 0, invalid_format |-> 0,
     missing_data |-> 0]

NoCollector == [built |-> FALSE, max_retries |-> 0, stats |-> NoStats, calls |-> 0]

NoRequest ==
    [pc |-> "idle", attempt |-> 1, met |-> <<>>, ret |-> None, before |-> NoStats]

NotCollecting ==
    [pc |-> "idle", target_count |-> 0, categories |-> <<>>, c |-> 1,
     products_per_category |-> 0, page |-> 1, category_count |-> 0,
     collected |-> <<>>, seen_codes |-> {}, before |-> 0]

\* no Collector has been built
CollectIdle ==
    /\ collector = NoCollector
    /\ request = NoRequest
    /\ collecting = NotCollecting

raceVars == <<store, runs>>

\* the two ETLPipeline objects that run concurrently, each on its own session
Runs == {1, 2}

Rival(r) == 3 - r

\* the store before get_engine() has chosen its engine
EmptyStore == [engine |-> "none", products |-> {}, brands |-> {}, categories |-> {}]

\* no product row
NoRow == [code |-> "", product_name |-> "", brand |-> "", category |-> "", by |-> 0]

\* rows a transaction inserted or updated and has not committed
NoWrites == [products |-> {}, brands |-> {}, categories |-> {}, updated |-> {}]

\* no object of the session waits for the next flush
NoPending == [op |-> "none", row |-> NoRow]

NotRunning ==
    [pc |-> "idle", docs |-> <<>>, i |-> 1, existing |-> NoRow, brand |-> "",
     missing |-> FALSE, pend |-> NoPending, w |-> NoWrites,
     cache |-> [brands |-> {}, categories |-> {}],
     outcome |-> "none", error |-> "none", at_commit |-> EmptyStore]

\* no run has started on an empty store
RaceIdle ==
    /\ store = EmptyStore
    /\ runs = [r \in Runs |-> NotRunning]

NoCall == [raw_doc |-> NoRawDoc, max_retries |-> 0, result |-> NoResult]

\* enrich_product is not running
EnrichIdle ==
    /\ raw_doc = NoRawDoc
    /\ max_retries = 0
    /\ attempt = 0
    /\ outcomes = <<>>
    /\ result = NoResult
    /\ epc = "idle"
    /\ previous = NoCall

NoSession == [state |-> "none", tx |-> EmptyTables, pend |-> EmptyPending]

NoRun == [coll |-> <<>>, outcome |-> "none", db |-> EmptyTables]

\* the session and the two caches, as the operators above take them
Machine ==
    [db |-> db, tx |-> session.tx, pend |-> session.pend,
     cache |-> [brands |-> brands_cache, categories |-> categories_cache],
     log |-> calls]

SetMachine(m) ==
    /\ db' = m.db
    /\ session' = [session EXCEPT !.tx = m.tx, !.pend = m.pend]
    /\ brands_cache' = m.cache.brands
    /\ categories_cache' = m.cache.categories
    /\ calls' = m.log

Init ==
    /\ enriched = <<>>
    /\ db = EmptyTables
    /\ schema = FALSE
    /\ session = NoSession
    /\ brands_cache = <<>>
    /\ categories_cache = <<>>
    /\ pc = "idle"
    /\ enriched_docs = <<>>
    /\ idx = 1
    /\ loaded = 0
    /\ exc = NoError
    /\ clock = 0
    /\ ret = "none"
    /\ last = NoRun
    /\ calls = <<>>
    /\ EnrichIdle
    /\ MongoIdle
    /\ OverlapIdle
    /\ ScriptIdle
    /\ CollectIdle
    /\ RaceIdle

\* ------------------------------------------------------------------------
\* Actions
\* ------------------------------------------------------------------------

\* scripts/enrich_data.py upserts one enriched record.  A raw_id is the string
\* of an ObjectId of products_raw and the script enriches the raw documents in
\* their stored order, so a record that is new to the collection carries a
\* raw_id above those it holds; a known raw_id is re-enriched in place.
UpsertEnriched(doc) ==
    /\ pc = "idle"
    /\ clock < MaxRuns
    /\ \/ /\ Len(enriched) < MaxDocs
          /\ \A i \in 1..Len(enriched) : enriched[i].raw_id < doc.raw_id
       \/ \E i \in 1..Len(enriched) : enriched[i].raw_id = doc.raw_id
    /\ enriched' = insert_enriched_document(enriched, doc)
    /\ UNCHANGED <<db, schema, session, brands_cache, categories_cache, pc,
                   exc, clock, calls>>
    /\ UNCHANGED runVars
    /\ UNCHANGED histVars
    /\ UNCHANGED <<enrichVars, mongoVars, overlapVars, scriptVars, collectVars, raceVars>>

\* run(): create_tables() and get_session(), on the pipeline object as it is
\* (its caches are those of __init__ or of its earlier runs)
BeginRun ==
    /\ pc = "idle"
    /\ clock < MaxRuns
    /\ schema' = TRUE
    /\ session' = [state |-> "open", tx |-> db, pend |-> EmptyPending]
    /\ pc' = "extract"
    /\ clock' = clock + 1
    /\ calls' = <<>>
    /\ UNCHANGED <<enriched, db, brands_cache, categories_cache, exc>>
    /\ UNCHANGED runVars
    /\ UNCHANGED histVars
    /\ UNCHANGED <<enrichVars, mongoVars, overlapVars, scriptVars, collectVars, raceVars>>

\* scripts/run_etl.py main(): pipeline = ETLPipeline(); pipeline.run().
\* __init__ gives the new object empty caches, then run() starts as above
Main ==
    /\ pc = "idle"
    /\ clock < MaxRuns
    /\ brands_cache' = <<>>
    /\ categories_cache' = <<>>
    /\ schema' = TRUE
    /\ session' = [state |-> "open", tx |-> db, pend |-> EmptyPending]
    /\ pc' = "extract"
    /\ clock' = clock + 1
    /\ calls' = <<>>
    /\ UNCHANGED <<enriched, db, exc>>
    /\ UNCHANGED runVars
    /\ UNCHANGED histVars
    /\ UNCHANGED <<enrichVars, mongoVars, overlapVars, scriptVars, collectVars, raceVars>>

\* run(): the extraction from the document store, which may fail
Extract(fault) ==
    /\ pc = "extract"
    /\ IF fault
       THEN /\ pc' = "except"
            /\ exc' = <<"ConnectionFailure">>
            /\ UNCHANGED enriched_docs
       ELSE /\ pc' = "load"
            /\ enriched_docs' = get_enriched_documents(enriched, "success", EXTRACT_LIMIT)
            /\ UNCHANGED exc
    /\ UNCHANGED <<enriched, db, schema, session, brands_cache, categories_cache,
                   idx, loaded, clock, ret, calls>>
    /\ UNCHANGED histVars
    /\ UNCHANGED <<enrichVars, mongoVars, overlapVars, scriptVars, collectVars, raceVars>>

\* a round trip to the relational store fails on its own (connection lost,
\* database locked): only a call that reaches the store can meet it
ReachesStore(doc) == Truthy(GetOrNone(Get(doc, "data", NoData), "code"))

\* run(): one iteration of the loop over enriched_docs
LoadProduct(fault) ==
    /\ pc = "load"
    /\ idx <= Len(enriched_docs)
    /\ LET Returned(r) ==
               /\ SetMachine(r.m)
               /\ IF r.exc # NoError
                  THEN /\ pc' = "except"
                       /\ exc' = r.exc
                       /\ UNCHANGED <<idx, loaded, ret>>
                  ELSE /\ ret' = r.ret
                       /\ loaded' = IF r.ret THEN loaded + 1 ELSE loaded
                       /\ idx' = idx + 1
                       /\ UNCHANGED <<pc, exc>>
       IN  Returned(IF fault /\ ReachesStore(enriched_docs[idx])
                    THEN Loaded(Machine, FALSE, <<"OperationalError">>)
                    ELSE load_product(Machine, enriched_docs[idx], clock))
    /\ UNCHANGED <<enriched, schema, enriched_docs, clock>>
    /\ UNCHANGED histVars
    /\ UNCHANGED <<enrichVars, mongoVars, overlapVars, scriptVars, collectVars, raceVars>>

\* run(): session.commit() once the loop is over
Commit(fault) ==
    /\ pc = "load"
    /\ idx > Len(enriched_docs)
    /\ LET Done(c) ==
               /\ SetMachine(c.m)
               /\ exc' = c.exc
               /\ pc' = IF c.exc # NoError THEN "except" ELSE "finally"
       IN  Done(IF fault
                THEN [m |-> Logged(Machine, SessionCall("commit", "", <<>>,
                                                        <<"OperationalError">>)),
                      exc |-> <<"OperationalError">>]
                ELSE CommitSession(Machine))
    /\ UNCHANGED <<enriched, schema, clock>>
    /\ UNCHANGED runVars
    /\ UNCHANGED histVars
    /\ UNCHANGED <<enrichVars, mongoVars, overlapVars, scriptVars, collectVars, raceVars>>

RolledBack(st) == IF st \in {"new", "pending"} THEN "transient" ELSE st

\* Session.rollback(): the open transaction and the pending INSERTs are
\* dropped; the objects it had inserted leave the session
RollbackSession(m) ==
    [m EXCEPT !.tx = m.db, !.pend = EmptyPending,
              !.cache = MapCaches(@, RolledBack),
              !.log = Append(@, SessionCall("rollback", "", <<>>, NoError))]

\* run(): the except clause: session.rollback(), then raise
Rollback ==
    /\ pc = "except"
    /\ SetMachine(RollbackSession(Machine))
    /\ pc' = "finally"
    /\ UNCHANGED <<enriched, schema, exc, clock>>
    /\ UNCHANGED runVars
    /\ UNCHANGED histVars
    /\ UNCHANGED <<enrichVars, mongoVars, overlapVars, scriptVars, collectVars, raceVars>>

Closed(st) == IF st = "persistent" THEN "detached" ELSE st

\* seeded fault: run() has no finally clause
CloseNothing(m) == m

\* Session.close(): the transaction is over and the objects of the session
\* are detached
CloseSession(m) ==
    [m EXCEPT !.tx = EmptyTables, !.pend = EmptyPending,
              !.cache = MapCaches(@, Closed),
              !.log = Append(@, SessionCall("close", "", <<>>, NoError))]

\* run(): the finally clause: session.close(); run() returns or raises
Close ==
    /\ pc = "finally"
    /\ LET Done(m) ==
               /\ session' = [state |-> "closed", tx |-> m.tx, pend |-> m.pend]
               /\ brands_cache' = m.cache.brands
               /\ categories_cache' = m.cache.categories
               /\ calls' = m.log
       IN  Done(CloseSession(Machine))
    /\ pc' = "idle"
    /\ last' = [coll |-> enriched,
                outcome |-> IF exc = NoError THEN "committed" ELSE "raised",
                db |-> db]
    /\ enriched_docs' = <<>>
    /\ idx' = 1
    /\ loaded' = 0
    /\ ret' = "none"
    /\ exc' = NoError
    /\ UNCHANGED <<enriched, db, schema, clock>>
    /\ UNCHANGED <<enrichVars, mongoVars, overlapVars, scriptVars, collectVars, raceVars>>

Next ==
    \/ \E doc \in DocPool : UpsertEnriched(doc)
    \/ Main
    \/ BeginRun
    \/ \E fault \in BOOLEAN : Extract(fault)
    \/ \E fault \in BOOLEAN : LoadProduct(fault)
    \/ \E fault \in BOOLEAN : Commit(fault)
    \/ Rollback
    \/ Close

Spec == Init /\ [][Next]_vars

\* the load engine over records that exceed the column limits
NextLong ==
    \/ \E doc \in LongPool : UpsertEnriched(doc)
    \/ Main
    \/ BeginRun
    \/ \E fault \in BOOLEAN : Extract(fault)
    \/ \E fault \in BOOLEAN : LoadProduct(fault)
    \/ \E fault \in BOOLEAN : Commit(fault)
    \/ Rollback
    \/ Close

SpecLong == Init /\ [][NextLong]_vars

\* ------------------------------------------------------------------------
\* Properties of the load engine
\* ------------------------------------------------------------------------

CodeOf(doc) == GetOrNone(Get(doc, "data", NoData), "code")

HasCode(doc) == Truthy(CodeOf(doc))

UniqueCodes(rows) == \A p, q \in rows : p.code = q.code => p = q

Succeeded == pc = "finally" /\ exc = NoError

Raised == pc = "finally" /\ exc # NoError

\* C1: whatever runs came before, committed or rolled back, the products
\* table never holds two rows with the same code, neither as committed nor
\* inside the open transaction, and a record whose code is present never
\* becomes a second INSERT: no pending product carries a code the
\* transaction already holds or that another pending product carries.
C1_OneRowPerCode ==
    /\ UniqueCodes(db.products)
    /\ UniqueCodes(session.tx.products)
    /\ \A i \in DOMAIN session.pend.products :
          /\ ~CodeConflict(session.tx.products, session.pend.products[i].code)
          /\ \A j \in DOMAIN session.pend.products :
                session.pend.products[i].code = session.pend.products[j].code
                    => i = j

\* a committed run has updated, in place, a row that an earlier run left
C1_RowUpdatedInPlace ==
    /\ Succeeded
    /\ \E p \in db.products, q \in last.db.products :
          /\ p.id = q.id
          /\ p.code = q.code
          /\ p.product_name # q.product_name

\* C2: once run() has caught an exception (from the extraction, from a load
\* or from the commit) and rolled back, the exception is still propagating
\* and the three tables are exactly those the run started from; nothing of
\* the run, flushed or pending, is left in the session.
C2_RollbackRestores ==
    /\ pc = "except" => exc # NoError
    /\ Raised =>
          /\ db = last.db
          /\ session.tx = db
          /\ session.pend = EmptyPending

\* a run failed after it had loaded a record and flushed a new brand
C2_FailedAfterFlush ==
    /\ Raised
    /\ idx > 1
    /\ loaded >= 1
    /\ \E n \in DOMAIN brands_cache : brands_cache[n].st = "transient"

Forget(p) == [p EXCEPT !.created_at = 0]

SameButCreatedAt(t1, t2) ==
    /\ t1.brands = t2.brands
    /\ t1.categories = t2.categories
    /\ Cardinality(t1.products) = Cardinality(t2.products)
    /\ {Forget(p) : p \in t1.products} = {Forget(p) : p \in t2.products}

\* C3: a run against the collection that the previous, committed run ran
\* against leaves the three tables with the same rows, every field but
\* created_at equal.
C3_SecondRunChangesNothing ==
    (pc = "finally" /\ last.outcome = "committed" /\ last.coll = enriched)
        => SameButCreatedAt(db, last.db)

\* a second run has committed its updates of the rows of the first
C3_RanTwice ==
    /\ Succeeded
    /\ last.outcome = "committed"
    /\ last.coll = enriched
    /\ loaded >= 1
    /\ db.products # {}

Rows(sess) == sess.tx.products \cup {sess.pend.products[i] : i \in DOMAIN sess.pend.products}

StoredName(doc) == PyStr(Take(NameOf(doc.data).v, PRODUCT_NAME_MAX))

SameCodeOtherName(d1, d2) ==
    /\ HasCode(d1)
    /\ CodeOf(d1) = CodeOf(d2)
    /\ NameOf(d1.data) # NameOf(d2.data)

\* C4: for two records of one batch with the same code and different names,
\* the session holds one row for that code once the second is processed, and
\* after the commit the table holds exactly one row for the code, named as
\* the record of that code that was processed last.
C4_LastNameWins ==
    \A i, j \in DOMAIN enriched_docs :
        (i < j /\ SameCodeOtherName(enriched_docs[i], enriched_docs[j])) =>
            /\ (pc = "load" /\ j < idx) =>
                  Cardinality({p \in Rows(session) : p.code = CodeOf(enriched_docs[i])}) = 1
            /\ (Succeeded /\ \A k \in DOMAIN enriched_docs :
                                k > j => CodeOf(enriched_docs[k]) # CodeOf(enriched_docs[j])) =>
                  /\ Cardinality({p \in db.products : p.code = CodeOf(enriched_docs[i])}) = 1
                  /\ \A p \in db.products :
                        p.code = CodeOf(enriched_docs[i]) =>
                            p.product_name = StoredName(enriched_docs[j])

\* a first run committed a batch with two names for one code
C4_TwoNamesOneBatch ==
    /\ Succeeded
    /\ last = NoRun
    /\ \E i, j \in DOMAIN enriched_docs :
          i < j /\ SameCodeOtherName(enriched_docs[i], enriched_docs[j])


UniqueNames(rows) == \A r, t \in rows : r.name = t.name => r = t

NameKinds == {"brands", "categories"}

\* C5: whatever runs came before, no two Brand rows and no two Category rows
\* have the same name, committed or inside the open transaction, and a name
\* that is present is never inserted again: no pending INSERT carries a name
\* the transaction holds and no INSERT is ever refused for its name.
C5_OneRowPerName ==
    /\ \A kind \in NameKinds :
          /\ UniqueNames(db[kind])
          /\ UniqueNames(session.tx[kind])
          /\ \A p \in session.pend[kind], r \in session.tx[kind] : p.name # r.name
          /\ exc # IntegrityError(kind, "name")

\* a committed run loaded products under brands of an earlier run and added
\* no brand
C5_NameReused ==
    /\ Succeeded
    /\ loaded >= 1
    /\ last.db.brands # {}
    /\ db.brands = last.db.brands
    /\ \E p \in db.products, b \in last.db.brands : p.brand_id = PyInt(b.id)

Skips == pc = "load" /\ idx <= Len(enriched_docs) /\ ~HasCode(enriched_docs[idx])

NumWithCode(docs) == Cardinality({i \in DOMAIN docs : HasCode(docs[i])})

\* C6: the step of the loop on a record without a code, or with an empty
\* one, gets False from _load_product, raises nothing and leaves the tables,
\* the session and both caches as they were, and the record is not counted;
\* a run that commits has counted exactly its records with a code, and each
\* of them has its row.
C6_NoCodeIsSkipped ==
    /\ [][Skips => /\ ret' = FALSE
                   /\ loaded' = loaded
                   /\ idx' = idx + 1
                   /\ pc' = "load"
                   /\ exc' = NoError
                   /\ db' = db
                   /\ session' = session
                   /\ brands_cache' = brands_cache
                   /\ categories_cache' = categories_cache]_vars
    /\ [](Succeeded =>
            /\ loaded = NumWithCode(enriched_docs)
            /\ \A i \in DOMAIN enriched_docs :
                  HasCode(enriched_docs[i]) =>
                      CodeConflict(db.products, CodeOf(enriched_docs[i])))

\* a run skipped a record without a code and committed another one
C6_SkippedAndCommitted ==
    /\ Succeeded
    /\ loaded >= 1
    /\ \E i \in DOMAIN enriched_docs : ~HasCode(enriched_docs[i])
    /\ db.products # last.db.products

\* what get-or-create makes of a name: no entity for a null or empty name,
\* else the row named by the name stripped and cut to 255 characters
RefersTo(ref, rows, name) ==
    IF ~Truthy(name) THEN ref = None
    ELSE \E r \in rows : ref = PyInt(r.id) /\ r.name = Take(Strip(name.v), NAME_MAX)

LastOfItsCode(docs, i) ==
    HasCode(docs[i]) /\ \A k \in DOMAIN docs : k > i => CodeOf(docs[k]) # CodeOf(docs[i])

RefersToTrimmed(ref, rows, name) ==
    IF ~Truthy(name) \/ Strip(name.v) = <<>> THEN ref = None
    ELSE \E r \in rows : ref = PyInt(r.id) /\ r.name = Strip(name.v)

LargeCollection(n) ==
    [i \in 1..(n + 1) |->
        IF i = 1
        THEN EnrichedDoc(1, "pending",
                 Data(PyStr(<<"2">>), PyStr(<<"P">>), PyStr(<<"W">>), PyStr(<<"K">>),
                      PyStr(<<"c">>), PyInt(2), PyInt(55)), Missing)
        ELSE IF i = n + 1
        THEN EnrichedDoc(i, "success",
                 Data(PyStr(<<"1">>), PyStr(<<"A">>), PyStr(<<"X">>), PyStr(<<"K">>),
                      PyStr(<<"b">>), PyInt(3), PyInt(80)), Missing)
        ELSE EnrichedDoc(i, "success", NoData, Missing)]

\* the store holds a large collection and the tables are empty
InitLimit ==
    /\ \E n \in (EXTRACT_LIMIT - MaxOver - 1)..(EXTRACT_LIMIT + MaxOver) :
          enriched = LargeCollection(n)
    /\ db = EmptyTables
    /\ schema = FALSE
    /\ session = NoSession
    /\ brands_cache = <<>>
    /\ categories_cache = <<>>
    /\ pc = "idle"
    /\ enriched_docs = <<>>
    /\ idx = 1
    /\ loaded = 0
    /\ exc = NoError
    /\ clock = 0
    /\ ret = "none"
    /\ last = NoRun
    /\ calls = <<>>
    /\ EnrichIdle
    /\ MongoIdle
    /\ OverlapIdle
    /\ ScriptIdle
    /\ CollectIdle
    /\ RaceIdle

\* the for loop of run() over docs[lo..hi], entered with acc: the session and
\* caches, the counter, the position and what _load_product returned last;
\* it stops at the first record that raises
RECURSIVE LoadRange(_, _, _, _, _)
LoadRange(docs, lo, hi, now, acc) ==
    LET Returned(r) ==
            IF r.exc # NoError THEN [acc EXCEPT !.m = r.m, !.exc = r.exc]
            ELSE [m |-> r.m, loaded |-> IF r.ret THEN acc.loaded + 1 ELSE acc.loaded,
                  idx |-> lo + 1, ret |-> r.ret, exc |-> NoError]
        Split(mid) ==
            LoadRange(docs, mid + 1, hi, now, LoadRange(docs, lo, mid, now, acc))
    IN  IF acc.exc # NoError \/ lo > hi THEN acc
        ELSE IF lo = hi THEN Returned(load_product(acc.m, docs[lo], now))
        ELSE Split((lo + hi) \div 2)

\* run(): the whole loop over enriched_docs, taken in one step
LoadBatch ==
    /\ pc = "load"
    /\ idx <= Len(enriched_docs)
    /\ LET Looped(r) ==
               /\ SetMachine(r.m)
               /\ idx' = r.idx
               /\ loaded' = r.loaded
               /\ ret' = r.ret
               /\ exc' = r.exc
               /\ pc' = IF r.exc # NoError THEN "except" ELSE "load"
       IN  Looped(LoadRange(enriched_docs, idx, Len(enriched_docs), clock,
                            [m |-> Machine, loaded |-> loaded, idx |-> idx,
                             ret |-> ret, exc |-> NoError]))
    /\ UNCHANGED <<enriched, schema, enriched_docs, clock>>
    /\ UNCHANGED histVars
    /\ UNCHANGED <<enrichVars, mongoVars, overlapVars, scriptVars, collectVars, raceVars>>

NextLimit ==
    \/ Main
    \/ BeginRun
    \/ \E fault \in BOOLEAN : Extract(fault)
    \/ LoadBatch
    \/ \E fault \in BOOLEAN : Commit(fault)
    \/ Rollback
    \/ Close

SpecLimit == InitLimit /\ [][NextLimit]_vars

IsSuccess(doc) == doc.status = "success"

Extracted == pc = "load" /\ idx = 1

CodesOfSuccess(coll) ==
    {CodeOf(coll[i]) : i \in {k \in DOMAIN coll : IsSuccess(coll[k])}}

\* C8 as amended: the records run() takes from the store are the success
\* records, in the store's order, up to the first 10000 of them; a run that
\* commits has passed each of these to _load_product; and every product row,
\* committed or in the session, carries the code of a success record, so
\* that no failed or pending record has written a row.
C8_SuccessUpToLimit ==
    /\ (Extracted \/ Succeeded) =>
          enriched_docs = Take(SelectSeq(enriched, IsSuccess), EXTRACT_LIMIT)
    /\ Succeeded => idx = Len(enriched_docs) + 1
    /\ \A p \in db.products \cup Rows(session) : p.code \in CodesOfSuccess(enriched)

\* a run committed the 10000 records it took from more than 10000
C8_LimitReached ==
    /\ Succeeded
    /\ Len(enriched_docs) = EXTRACT_LIMIT
    /\ Len(SelectSeq(enriched, IsSuccess)) > EXTRACT_LIMIT

\* C8 as stated: every success record that the store holds when run()
\* extracts is passed to _load_product.
C8_EverySuccessRecord ==
    (Extracted \/ Succeeded) => enriched_docs = SelectSeq(enriched, IsSuccess)


\* ------------------------------------------------------------------------
\* Calls of enrich_product
\* ------------------------------------------------------------------------

EnBreakfastCereals ==
    <<"e", "n", ":", "b", "r", "e", "a", "k", "f", "a", "s", "t", "-",
      "c", "e", "r", "e", "a", "l", "s">>

FrSnacks == <<"f", "r", ":", "s", "n", "a", "c", "k", "s">>

\* a complete payload, as the collector stores it
GoodPayload ==
    Payload(PyStr(<<"1">>), PyStr(<<"A">>), PyStr(<<"X">>), PyStr(<<"b">>),
            PyInt(3), PyFloat(3), PyStr(EnBreakfastCereals),
            PyList(<<PyStr(FrSnacks)>>))

WithField(payload, key, value) == PyDict([payload.v EXCEPT ![key] = value])

\* The raw documents enrich_product is called with: a complete one, one
\* without payload, with a null payload, with a payload that is no
\* dictionary, with an empty one, and complete ones with one field null, of
\* an unexpected type or out of range.
RawPool ==
    { [_id |-> PyStr(<<"r">>), payload |-> pl] :
        pl \in { GoodPayload, Missing, None, PyStr(<<"x">>), EmptyPayload,
                 WithField(GoodPayload, "nutriscore_grade", None),
                 WithField(GoodPayload, "nutriscore_grade", PyInt(1)),
                 WithField(GoodPayload, "nutriscore_grade", PyStr(<<"B">>)),
                 WithField(GoodPayload, "completeness", None),
                 WithField(GoodPayload, "completeness", PyStr(<<"h">>)),
                 WithField(GoodPayload, "completeness", NaN),
                 WithField(GoodPayload, "completeness", PyFloat(8)),
                 WithField(GoodPayload, "completeness", PyFloat(0 - 6)),
                 WithField(GoodPayload, "main_category", PyInt(7)),
                 WithField(GoodPayload, "main_category", None),
                 WithField(WithField(GoodPayload, "main_category", Missing),
                           "categories_tags", PyInt(7)),
                 WithField(WithField(GoodPayload, "main_category", Missing),
                           "categories_tags", PyList(<<None>>)),
                 WithField(WithField(GoodPayload, "main_category", PyStr(<<>>)),
                           "categories_tags", PyList(<<>>)) } }
        \cup {[_id |-> Missing, payload |-> GoodPayload]}

\* grades and completeness values of the scored documents: a best and a
\* worst grade, one that is no grade, an absent and a null one; an absent
\* completeness, a fraction whose score is no whole number, one above 1,
\* the integers 1 and -1
GradePool == {PyStr(<<"a">>), PyStr(<<"e">>), PyStr(<<"z">>), Missing, None}

CompletenessPool == {Missing, PyFloat(1), PyFloat(5), PyInt(1), PyInt(0 - 1)}

ScoredPool ==
    { [_id |-> PyStr(<<"s">>),
       payload |-> WithField(WithField(GoodPayload, "nutriscore_grade", g),
                             "completeness", c)] :
        g \in GradePool, c \in CompletenessPool }

GreenTea == <<"g", "r", "e", "e", "n", ":", "t", "e", "a">>

IcedTea == <<"i", "C", "E", "D", "-", "t", "e", "a">>

\* documents that differ by their categories: a main category with another
\* prefix than "en:", with no prefix, with "en:" inside a word; a main
\* category that is absent or empty before a list of tags, and a list whose
\* first tag is empty
CategoryPool ==
    { [_id |-> PyStr(<<"c">>),
       payload |-> WithField(WithField(GoodPayload, "main_category", main),
                             "categories_tags", tags)] :
        main \in {PyStr(FrSnacks), PyStr(GreenTea), PyStr(IcedTea),
                  PyStr(<<>>), Missing},
        tags \in {PyList(<<PyStr(EnBreakfastCereals), PyStr(FrSnacks)>>),
                  PyList(<<PyStr(<<>>)>>), PyList(<<>>), Missing} }

\* a payload with image fields next to the others
WithImages(payload, images) == PyDict(images @@ payload.v)

\* documents whose payload carries image fields: a front image only; a null
\* front image before a generic and a small one
ImagePool ==
    { [_id |-> PyStr(<<"i">>), payload |-> WithImages(GoodPayload, images)] :
        images \in { [image_front_url |-> PyStr(<<"f">>)],
                     [image_front_url |-> None, image_url |-> PyStr(<<"g">>),
                      image_small_url |-> PyStr(<<"s">>)] } }

\* the raw documents enrich_product is called with
CallPool == RawPool \cup ScoredPool \cup CategoryPool \cup ImagePool

\* a negative max_retries leaves the range empty; -1 stands for them
RetryRange == (0 - 1)..MaxRetries

\* enrich_product(raw_doc, max_retries) is called
Call(doc, retries) ==
    /\ epc = "idle"
    /\ raw_doc' = doc
    /\ max_retries' = retries
    /\ attempt' = 0
    /\ outcomes' = <<>>
    /\ result' = NoResult
    /\ epc' = "loop"
    /\ UNCHANGED previous
    /\ UNCHANGED <<loadVars, mongoVars, overlapVars, scriptVars, collectVars, raceVars>>

\* one iteration of the retry loop: the try and, when it raises, the handler
Attempt ==
    /\ epc = "loop"
    /\ HasNext(attempt, max_retries)
    /\ attempt' = attempt + 1
    /\ LET Tried(t) ==
               IF t.exc = NoException
               THEN /\ result' = SuccessRecord(raw_doc, t.v)
                    /\ epc' = "returned"
                    /\ outcomes' = Append(outcomes, "ok")
               ELSE /\ outcomes' = Append(outcomes, "raised")
                    /\ IF ~Catches(t.exc)
                       THEN /\ epc' = "raised"
                            /\ UNCHANGED result
                       ELSE IF IsLastAttempt(attempt, max_retries)
                       THEN /\ result' = FailedRecord(raw_doc, t.exc)
                            /\ epc' = "returned"
                       ELSE /\ epc' = "loop"
                            /\ UNCHANGED result
       IN  Tried(TryBody(Get(raw_doc, "payload", EmptyPayload)))
    /\ UNCHANGED <<raw_doc, max_retries, previous>>
    /\ UNCHANGED <<loadVars, mongoVars, overlapVars, scriptVars, collectVars, raceVars>>

\* the range is exhausted and no iteration has returned
Fallback ==
    /\ epc = "loop"
    /\ ~HasNext(attempt, max_retries)
    /\ result' = PendingRecord(raw_doc)
    /\ epc' = "returned"
    /\ UNCHANGED <<raw_doc, max_retries, attempt, outcomes, previous>>
    /\ UNCHANGED <<loadVars, mongoVars, overlapVars, scriptVars, collectVars, raceVars>>

\* the caller has the record; the next call may follow
Return ==
    /\ epc = "returned"
    /\ raw_doc' = NoRawDoc
    /\ max_retries' = 0
    /\ attempt' = 0
    /\ outcomes' = <<>>
    /\ result' = NoResult
    /\ epc' = "idle"
    /\ UNCHANGED previous
    /\ UNCHANGED <<loadVars, mongoVars, overlapVars, scriptVars, collectVars, raceVars>>

\* the caller keeps the record, and what it was computed from, while it
\* makes the next call
ReturnKept ==
    /\ epc = "returned"
    /\ raw_doc' = NoRawDoc
    /\ max_retries' = 0
    /\ attempt' = 0
    /\ outcomes' = <<>>
    /\ result' = NoResult
    /\ epc' = "idle"
    /\ previous' = [raw_doc |-> raw_doc, max_retries |-> max_retries,
                    result |-> result]
    /\ UNCHANGED <<loadVars, mongoVars, overlapVars, scriptVars, collectVars, raceVars>>

NextEnrich ==
    \/ \E doc \in CallPool, retries \in RetryRange : Call(doc, retries)
    \/ Attempt
    \/ Fallback
    \/ Return

SpecEnrich == Init /\ [][NextEnrich]_vars

\* calls that follow one another, the record of the one before kept
NextRepeat ==
    \/ \E doc \in CallPool, retries \in RetryRange : Call(doc, retries)
    \/ Attempt
    \/ Fallback
    \/ ReturnKept

SpecRepeat == Init /\ [][NextRepeat]_vars

Statuses == {"success", "failed", "pending"}

\* C9: whatever the payload of the raw document is (fields missing, null or
\* of an unexpected type, payload missing, null or no dictionary) and
\* whatever max_retries is, no exception leaves enrich_product, and what it
\* returns is a record with a raw_id, a status, an enriched_at and a data.
C9_AlwaysARecord ==
    /\ epc # "raised"
    /\ epc = "returned" =>
          /\ {"raw_id", "status", "enriched_at", "data"} \subseteq DOMAIN result
          /\ result.status \in Statuses

\* a document with a null payload has been answered with a failed record
C9_NullPayloadAnswered ==
    /\ epc = "returned"
    /\ raw_doc.payload = None
    /\ result.status = "failed"
    /\ result.error.code = "AttributeError"

AllRaised(upto) == \A i \in 1..upto : outcomes[i] = "raised"

\* C10: enrich_product makes at most max_retries + 1 attempts; while it
\* loops every attempt made has raised; a success record comes from the
\* first attempt that does not raise; the record is failed exactly when
\* attempt number max_retries + 1 has raised, and then its data is empty and
\* its error holds the class name and the message of the exception; no
\* record holds a field beyond raw_id, status, enriched_at, data and error.
C10_RetriesThenFails ==
    /\ attempt = Len(outcomes)
    /\ attempt <= max_retries + 1
    /\ epc = "loop" => AllRaised(attempt)
    /\ epc = "returned" =>
          /\ result.status = "success" =>
                outcomes[attempt] = "ok" /\ AllRaised(attempt - 1)
          /\ result.status = "failed" <=>
                (attempt = max_retries + 1 /\ attempt >= 1
                     /\ outcomes[attempt] = "raised")
          /\ result.status = "failed" =>
                /\ result.data = NoData
                /\ DOMAIN result.error = {"code", "message"}
                /\ result.error.code \in ExceptionClasses
          /\ DOMAIN result \subseteq
                {"raw_id", "status", "enriched_at", "data", "error"}

\* the third of three attempts has raised and the record is failed
C10_FailedAfterRetries ==
    /\ epc = "returned"
    /\ max_retries = 2
    /\ attempt = 3
    /\ result.status = "failed"

\* ------------------------------------------------------------------------
\* run() calls that overlap in time
\* ------------------------------------------------------------------------

\* what both calls extract: two success records with two brands and one
\* category
OverlapDocs ==
    << EnrichedDoc(1, "success",
           Data(PyStr(<<"1">>), PyStr(<<"A">>), PyStr(<<"X">>), PyStr(<<"K">>),
                PyStr(<<"b">>), PyInt(3), PyInt(80)), Missing),
       EnrichedDoc(5, "success",
           Data(PyStr(<<"2">>), PyStr(<<"P">>), PyStr(<<"Y">>), PyStr(<<"K">>),
                PyStr(<<"d">>), PyInt(4), PyInt(20)), Missing) >>

\* run() t calls a session, or is handed an entity from a cache; of is the
\* run() that made the session or cached the entity
Use(t, op, of) == [by |-> t, op |-> op, of |-> of]

\* _get_or_create_brand / _get_or_create_category called by run() t on its
\* pipeline object: self.<cache> is read and written, self.session queried
GetOrCreateBy(acc, t, cache, name) ==
    LET Named(key) ==
            IF key \in DOMAIN acc.self[cache]
            THEN [acc EXCEPT !.uses = @ \cup {Use(t, "cached", acc.self[cache][key])}]
            ELSE [self |-> [acc.self EXCEPT ![cache] = (key :> t) @@ @],
                  uses |-> acc.uses \cup {Use(t, "query", acc.self.session)}]
    IN  IF ~Truthy(name) THEN acc ELSE Named(Take(Strip(name.v), NAME_MAX))

\* _load_product called by run() t: the query by code on self.session, then
\* the two get-or-create calls
LoadProductBy(acc, t, enriched_doc) ==
    LET Coded(data) ==
            GetOrCreateBy(
                GetOrCreateBy(
                    [acc EXCEPT !.uses = @ \cup {Use(t, "query", acc.self.session)}],
                    t, "brands_cache", BrandOf(data)),
                t, "categories_cache", CategoryOf(data))
        WithData(data) ==
            IF ~Truthy(GetOrNone(data, "code")) THEN acc ELSE Coded(data)
    IN  WithData(Get(enriched_doc, "data", NoData))

Running(t) == invocations[t].pc \notin {"idle", "done"}

\* run() called on the pipeline object o: self.session = get_session()
RunBegin(t, o) ==
    /\ invocations[t].pc = "idle"
    /\ pipelines' = [pipelines EXCEPT ![o].session = t]
    /\ invocations' =
           [u \in Invocations |->
               IF u = t
               THEN [pc |-> "extract", self |-> o, idx |-> 1,
                     overlapped |-> \E v \in Invocations : Running(v)]
               ELSE IF Running(u) THEN [invocations[u] EXCEPT !.overlapped = TRUE]
               ELSE invocations[u]]
    /\ UNCHANGED uses
    /\ UNCHANGED <<loadVars, enrichVars, mongoVars, scriptVars, collectVars, raceVars>>

\* the extraction, which may fail
RunExtract(t, fault) ==
    /\ invocations[t].pc = "extract"
    /\ invocations' = [invocations EXCEPT ![t].pc = IF fault THEN "except" ELSE "load"]
    /\ UNCHANGED <<pipelines, uses>>
    /\ UNCHANGED <<loadVars, enrichVars, mongoVars, scriptVars, collectVars, raceVars>>

\* one iteration of the loop over the extracted records
RunLoad(t, fault) ==
    /\ invocations[t].pc = "load"
    /\ invocations[t].idx <= Len(OverlapDocs)
    /\ LET Done(acc) ==
               /\ pipelines' = [pipelines EXCEPT ![invocations[t].self] = acc.self]
               /\ uses' = acc.uses
       IN  Done(LoadProductBy([self |-> pipelines[invocations[t].self], uses |-> uses],
                              t, OverlapDocs[invocations[t].idx]))
    /\ invocations' =
           IF fault THEN [invocations EXCEPT ![t].pc = "except"]
           ELSE [invocations EXCEPT ![t].idx = @ + 1]
    /\ UNCHANGED <<loadVars, enrichVars, mongoVars, scriptVars, collectVars, raceVars>>

\* self.session.commit() once the loop is over
RunCommit(t, fault) ==
    /\ invocations[t].pc = "load"
    /\ invocations[t].idx > Len(OverlapDocs)
    /\ uses' = uses \cup {Use(t, "commit", pipelines[invocations[t].self].session)}
    /\ invocations' = [invocations EXCEPT ![t].pc = IF fault THEN "except" ELSE "finally"]
    /\ UNCHANGED pipelines
    /\ UNCHANGED <<loadVars, enrichVars, mongoVars, scriptVars, collectVars, raceVars>>

\* the except clause: self.session.rollback()
RunRollback(t) ==
    /\ invocations[t].pc = "except"
    /\ uses' = uses \cup {Use(t, "rollback", pipelines[invocations[t].self].session)}
    /\ invocations' = [invocations EXCEPT ![t].pc = "finally"]
    /\ UNCHANGED pipelines
    /\ UNCHANGED <<loadVars, enrichVars, mongoVars, scriptVars, collectVars, raceVars>>

\* the finally clause: self.session.close()
RunClose(t) ==
    /\ invocations[t].pc = "finally"
    /\ uses' = uses \cup {Use(t, "close", pipelines[invocations[t].self].session)}
    /\ invocations' = [invocations EXCEPT ![t].pc = "done"]
    /\ UNCHANGED pipelines
    /\ UNCHANGED <<loadVars, enrichVars, mongoVars, scriptVars, collectVars, raceVars>>

NextOverlap ==
    \/ \E t \in Invocations, o \in Pipelines : RunBegin(t, o)
    \/ \E t \in Invocations, fault \in BOOLEAN : RunExtract(t, fault)
    \/ \E t \in Invocations, fault \in BOOLEAN : RunLoad(t, fault)
    \/ \E t \in Invocations, fault \in BOOLEAN : RunCommit(t, fault)
    \/ \E t \in Invocations : RunRollback(t)
    \/ \E t \in Invocations : RunClose(t)

SpecOverlap == Init /\ [][NextOverlap]_vars

\* ------------------------------------------------------------------------
\* Calls of the MongoDBManager inserts
\* ------------------------------------------------------------------------

\* what the inserts of the document store leave alone
pipelineVars ==
    <<db, schema, session, brands_cache, categories_cache, pc, enriched_docs,
      idx, loaded, exc, clock, ret, last, calls>>

MongoCall(op, arg, before) == [op |-> op, arg |-> arg, before |-> before]

\* insert_raw_document(payload)
InsertRaw(payload) ==
    /\ mongo_call' = MongoCall("insert_raw_document", payload, raw)
    /\ LET Done(r) == raw' = r.coll /\ mongo_ret' = r.ret
       IN  Done(insert_raw_document(raw, payload, OPENFOODFACTS))
    /\ UNCHANGED enriched
    /\ UNCHANGED <<pipelineVars, enrichVars, overlapVars, scriptVars, collectVars, raceVars>>

\* insert_raw_documents_batch(payloads)
InsertRawBatch(payloads) ==
    /\ mongo_call' = MongoCall("insert_raw_documents_batch", payloads, raw)
    /\ LET Done(r) == raw' = r.coll /\ mongo_ret' = r.ret
       IN  Done(insert_raw_documents_batch(raw, payloads, OPENFOODFACTS, 0))
    /\ UNCHANGED enriched
    /\ UNCHANGED <<pipelineVars, enrichVars, overlapVars, scriptVars, collectVars, raceVars>>

\* insert_enriched_document(enriched_doc): the upsert raised nothing, the
\* raw_id is returned
InsertEnriched(doc) ==
    /\ mongo_call' = MongoCall("insert_enriched_document", doc, enriched)
    /\ enriched' = insert_enriched_document(enriched, doc)
    /\ mongo_ret' = doc.raw_id
    /\ UNCHANGED raw
    /\ UNCHANGED <<pipelineVars, enrichVars, overlapVars, scriptVars, collectVars, raceVars>>

\* insert_enriched_documents_batch(enriched_docs)
InsertEnrichedBatch(docs) ==
    /\ mongo_call' = MongoCall("insert_enriched_documents_batch", docs, enriched)
    /\ LET Done(r) == enriched' = r.coll /\ mongo_ret' = r.ret
       IN  Done(insert_enriched_documents_batch(enriched, docs))
    /\ UNCHANGED raw
    /\ UNCHANGED <<pipelineVars, enrichVars, overlapVars, scriptVars, collectVars, raceVars>>

\* compute_raw_hash(payload); the call before it is kept with its hash
ComputeRawHash(payload) ==
    /\ mongo_call' =
           MongoCall("compute_raw_hash", payload,
                     IF mongo_call.op = "compute_raw_hash"
                     THEN <<[payload |-> mongo_call.arg, raw_hash |-> mongo_ret]>>
                     ELSE <<>>)
    /\ mongo_ret' = compute_raw_hash(payload)
    /\ UNCHANGED <<raw, enriched>>
    /\ UNCHANGED <<pipelineVars, enrichVars, overlapVars, scriptVars, collectVars, raceVars>>

NextHash == \E payload \in PayloadPool \cup NestedPool : ComputeRawHash(payload)

SpecHash == Init /\ [][NextHash]_vars

\* the collector: inserts into products_raw
NextRaw ==
    \/ \E payload \in PayloadPool : InsertRaw(payload)
    \/ \E payloads \in ListsUpTo(PayloadPool, MaxBatch) : InsertRawBatch(payloads)

SpecRaw == Init /\ [][NextRaw]_vars

\* the enrichment script: upserts into products_enriched
NextUpsert ==
    \/ \E doc \in UpsertPool : InsertEnriched(doc)
    \/ \E docs \in ListsUpTo(UpsertPool, MaxBatch) : InsertEnrichedBatch(docs)

SpecUpsert == Init /\ [][NextUpsert]_vars

\* ------------------------------------------------------------------------
\* scripts/enrich_data.py main()
\* ------------------------------------------------------------------------

\* the payloads of the raw documents main() finds: a complete one, an empty
\* one, and a null one, whose enrichment fails
ScriptPayloads == {GoodPayload, EmptyPayload, None}

\* a record of enrich_product as products_enriched holds it (enriched_at is
\* not kept): a record without the key error has none
AsStored(record) ==
    EnrichedDoc(record.raw_id, record.status, record.data,
                IF "error" \in DOMAIN record THEN record.error ELSE Missing)

\* stats[status] = stats.get(status, 0) + 1
Counted(stats, status) ==
    (status :> (IF status \in DOMAIN stats THEN stats[status] ELSE 0) + 1) @@ stats

\* the collector has stored one more document in products_raw
StoreRaw(payload) ==
    /\ script.pc = "idle"
    /\ Len(raw) < MaxDocs
    /\ raw' = Append(raw, [_id |-> ObjectId(Len(raw) + 1), payload |-> payload])
    /\ UNCHANGED <<enriched, mongo_call, mongo_ret, script>>
    /\ UNCHANGED <<pipelineVars, enrichVars, overlapVars, collectVars, raceVars>>

\* main(): raw_docs = mongo.get_raw_documents_for_enrichment(); return when
\* there is none
MainFetch ==
    /\ script.pc = "idle"
    /\ script.calls < MaxRuns
    /\ script' = [pc |-> IF raw = <<>> THEN "returned" ELSE "loop",
                  raw_docs |-> raw, i |-> 1, enriched_docs |-> <<>>,
                  stats |-> IF raw = <<>> THEN <<>>
                            ELSE [status \in {"success", "failed"} |-> 0],
                  count |-> None, calls |-> script.calls + 1]
    /\ UNCHANGED <<enriched, mongoVars>>
    /\ UNCHANGED <<pipelineVars, enrichVars, overlapVars, collectVars, raceVars>>

\* main(): one iteration of the loop over raw_docs
MainEnrich ==
    /\ script.pc = "loop"
    /\ script.i <= Len(script.raw_docs)
    /\ LET Enriched(r) ==
               IF r.exc # NoException
               THEN script' = [script EXCEPT !.pc = "raised"]
               ELSE script' = [script EXCEPT
                                  !.i = @ + 1,
                                  !.enriched_docs = Append(@, r.v),
                                  !.stats = Counted(@, r.v.status)]
       IN  Enriched(enrich_product(script.raw_docs[script.i], DEFAULT_MAX_RETRIES))
    /\ UNCHANGED <<enriched, mongoVars>>
    /\ UNCHANGED <<pipelineVars, enrichVars, overlapVars, collectVars, raceVars>>

\* main(): count = mongo.insert_enriched_documents_batch(enriched_docs)
MainSave ==
    /\ script.pc = "loop"
    /\ script.i > Len(script.raw_docs)
    /\ LET Saved(r) ==
               /\ enriched' = r.coll
               /\ script' = [script EXCEPT !.pc = "returned", !.count = r.ret]
       IN  Saved(insert_enriched_documents_batch(
                     enriched,
                     [k \in DOMAIN script.enriched_docs |->
                         AsStored(script.enriched_docs[k])]))
    /\ UNCHANGED mongoVars
    /\ UNCHANGED <<pipelineVars, enrichVars, overlapVars, collectVars, raceVars>>

\* main() has returned; the script may be started again
MainAgain ==
    /\ script.pc = "returned"
    /\ script' = [script EXCEPT !.pc = "idle"]
    /\ UNCHANGED <<enriched, mongoVars>>
    /\ UNCHANGED <<pipelineVars, enrichVars, overlapVars, collectVars, raceVars>>

NextMain ==
    \/ \E payload \in ScriptPayloads : StoreRaw(payload)
    \/ MainFetch
    \/ MainEnrich
    \/ MainSave
    \/ MainAgain

SpecMain == Init /\ [][NextMain]_vars

\* ------------------------------------------------------------------------
\* scripts/collect_data.py: Collector
\* ------------------------------------------------------------------------

\* a product of a page of the catalog API
Product(code, name) == PyDict([code |-> code, product_name |-> name])

\* what a page may list: two products of one code, a product of another
\* code, a product with an empty name, one without code, and an item that is
\* no dictionary
ProductPool ==
    { Product(PyStr(<<"1">>), PyStr(<<"A">>)),
      Product(PyStr(<<"1">>), PyStr(<<"B">>)),
      Product(PyStr(<<"2">>), PyStr(<<"A">>)),
      Product(PyStr(<<"3">>), PyStr(<<>>)),
      Product(Missing, PyStr(<<"A">>)),
      PyStr(<<"x">>) }

Page(products) == PyDict([products |-> products])

\* what response.json() may return: a page of products, a page with an
\* empty list, a dictionary without the key, and a JSON text that is no
\* dictionary
ResponsePool ==
    {Page(PyList(products)) : products \in ListsUpTo(ProductPool, MaxBatch)}
        \cup {Page(PyList(<<>>)), Page(Missing), PyList(<<PyInt(1)>>)}

\* what self.session.get / raise_for_status / response.json may meet
Outcomes == {"ok", "timeout", "invalid", "error"}

\* n + 1 for a counter of stats or the page number: exact in a direct call
\* of _request, followed up to MaxCounted while collect runs
Counting(n) == IF collecting.pc = "idle" \/ n < MaxCounted THEN n + 1 ELSE n

REQUIRED_FIELDS == <<"code", "product_name">>

\* Collector._is_valid
is_valid(product) ==
    \A k \in DOMAIN REQUIRED_FIELDS : Truthy(GetOrNone(product.v, REQUIRED_FIELDS[k]))

\* seeded fault: no code is ever found in seen_codes
SeenNever(code, seen_codes) == FALSE

\* code in seen_codes
Seen(code, seen_codes) == code \in seen_codes

\* products_per_category = max(target_count // len(categories) + 10, 50)
PER_CATEGORY_MARGIN == 10

PER_CATEGORY_MIN == 50

ProductsPerCategory(target_count, categories) ==
    LET n == (target_count \div Len(categories)) + PER_CATEGORY_MARGIN
    IN  IF n > PER_CATEGORY_MIN THEN n ELSE PER_CATEGORY_MIN

\* the loop of collect over the products of a page: f holds target_count,
\* collected, seen_codes, category_count and stats
RECURSIVE EachProduct(_, _)
EachProduct(f, products) ==
    LET raw_product == Head(products)
        code == Get(raw_product.v, "code", PyStr(<<>>))
    IN  IF products = <<>> THEN f
        ELSE IF Len(f.collected) >= f.target_count THEN f
        ELSE IF raw_product.t # "dict"
        THEN EachProduct([f EXCEPT !.stats.invalid_format = Counting(@)],
                         Tail(products))
        ELSE IF Seen(code, f.seen_codes) THEN EachProduct(f, Tail(products))
        ELSE IF ~is_valid(raw_product)
        THEN EachProduct([f EXCEPT !.stats.missing_data = Counting(@)],
                         Tail(products))
        ELSE EachProduct([f EXCEPT !.collected = Append(@, raw_product),
                                   !.seen_codes = @ \cup {code},
                                   !.category_count = @ + 1,
                                   !.stats.collected = @ + 1],
                         Tail(products))

\* seeded fault: the range of attempts is one longer
HasAttemptOneMore(a, retries) == a < retries + 2

\* for attempt in range(1, self.max_retries + 1): a is the value the range
\* yields next
HasAttempt(a, retries) == a < retries + 1

\* Collector(max_retries=retries)
NewCollector(retries) ==
    /\ collecting.pc = "idle"
    /\ ~collector.built
    /\ collector' = [built |-> TRUE, max_retries |-> retries, stats |-> NoStats,
                     calls |-> 0]
    /\ UNCHANGED <<request, collecting>>
    /\ UNCHANGED <<loadVars, enrichVars, mongoVars, overlapVars, scriptVars, raceVars>>

\* collect(target_count, categories) is called: the locals before the loop
\* over the categories
CollectBegin(target_count, categories) ==
    /\ collector.built
    /\ collecting.pc = "idle"
    /\ collector.calls < MaxRuns
    /\ collector' = [collector EXCEPT !.calls = @ + 1]
    /\ collecting' =
           [pc |-> "for", target_count |-> target_count, categories |-> categories,
            c |-> 1,
            products_per_category |-> ProductsPerCategory(target_count, categories),
            page |-> 1, category_count |-> 0, collected |-> <<>>,
            seen_codes |-> {}, before |-> collector.stats.collected]
    /\ UNCHANGED request
    /\ UNCHANGED <<loadVars, enrichVars, mongoVars, overlapVars, scriptVars, raceVars>>

\* for category in categories: the next category, or the end of the loop,
\* by exhaustion or by the break when the target is reached
ForCategory ==
    /\ collecting.pc = "for"
    /\ collecting' =
           IF collecting.c > Len(collecting.categories)
              \/ Len(collecting.collected) >= collecting.target_count
           THEN [collecting EXCEPT !.pc = "return"]
           ELSE [collecting EXCEPT !.pc = "while", !.page = 1, !.category_count = 0]
    /\ UNCHANGED <<collector, request>>
    /\ UNCHANGED <<loadVars, enrichVars, mongoVars, overlapVars, scriptVars, raceVars>>

\* the test of the pagination loop; when it holds _request is called
WhileTest ==
    /\ collecting.pc = "while"
    /\ IF /\ collecting.category_count < collecting.products_per_category
          /\ Len(collecting.collected) < collecting.target_count
       THEN /\ collecting' = [collecting EXCEPT !.pc = "request"]
            /\ request' = [pc |-> "loop", attempt |-> 1, met |-> <<>>,
                           ret |-> None, before |-> collector.stats]
       ELSE /\ collecting' = [collecting EXCEPT !.pc = "for", !.c = @ + 1]
            /\ UNCHANGED request
    /\ UNCHANGED collector
    /\ UNCHANGED <<loadVars, enrichVars, mongoVars, overlapVars, scriptVars, raceVars>>

\* _request(url, params) is called on the Collector
RequestBegin ==
    /\ collector.built
    /\ collecting.pc = "idle"
    /\ request.pc = "idle"
    /\ collector.calls < MaxRuns
    /\ collector' = [collector EXCEPT !.calls = @ + 1]
    /\ request' = [pc |-> "loop", attempt |-> 1, met |-> <<>>, ret |-> None,
                   before |-> collector.stats]
    /\ UNCHANGED collecting
    /\ UNCHANGED <<loadVars, enrichVars, mongoVars, overlapVars, scriptVars, raceVars>>

\* _request: one attempt, and what it meets: a response that parses (the
\* data is returned), a timeout, a body that is no JSON (None is returned),
\* another request error
RequestAttempt(outcome, data) ==
    /\ request.pc = "loop"
    /\ HasAttempt(request.attempt, collector.max_retries)
    /\ outcome = "ok" \/ data = None
    /\ request' =
           [request EXCEPT
               !.met = Append(@, outcome),
               !.attempt = IF outcome \in {"timeout", "error"} THEN @ + 1 ELSE @,
               !.pc = IF outcome \in {"ok", "invalid"} THEN "returned" ELSE @,
               !.ret = IF outcome = "ok" THEN data ELSE None]
    /\ collector' =
           [collector EXCEPT
               !.stats.timeouts = IF outcome = "timeout" THEN Counting(@) ELSE @,
               !.stats.invalid_format = IF outcome = "invalid" THEN Counting(@) ELSE @,
               !.stats.errors = IF outcome = "ok" THEN @ ELSE Counting(@)]
    /\ UNCHANGED collecting
    /\ UNCHANGED <<loadVars, enrichVars, mongoVars, overlapVars, scriptVars, raceVars>>

\* _request: the range is exhausted, None is returned
RequestGivesUp ==
    /\ request.pc = "loop"
    /\ ~HasAttempt(request.attempt, collector.max_retries)
    /\ request' = [request EXCEPT !.pc = "returned", !.ret = None]
    /\ UNCHANGED <<collector, collecting>>
    /\ UNCHANGED <<loadVars, enrichVars, mongoVars, overlapVars, scriptVars, raceVars>>

\* the caller of _request has what it returned
RequestDone ==
    /\ collecting.pc = "idle"
    /\ request.pc = "returned"
    /\ request' = NoRequest
    /\ UNCHANGED <<collector, collecting>>
    /\ UNCHANGED <<loadVars, enrichVars, mongoVars, overlapVars, scriptVars, raceVars>>

\* not data, for what _request returns
IsFalsy(data) ==
    \/ ~Truthy(data)
    \/ data.t = "dict" /\ \A k \in DOMAIN data.v : data.v[k] = Missing

\* collect: what _request returned is tested, then the page is gone through
\* and page is increased; a break leaves the pagination loop
WhileBody ==
    /\ collecting.pc = "request"
    /\ request.pc = "returned"
    /\ request' = NoRequest
    /\ LET data == request.ret
           Break ==
               /\ collecting' = [collecting EXCEPT !.pc = "for", !.c = @ + 1]
               /\ UNCHANGED collector
           Gone(f) ==
               /\ collecting' =
                      [collecting EXCEPT
                          !.pc = "while",
                          !.collected = f.collected,
                          !.seen_codes = f.seen_codes,
                          !.category_count = f.category_count,
                          !.page = Counting(@)]
               /\ collector' = [collector EXCEPT !.stats = f.stats]
           Through(products) ==
               IF ~Truthy(products) THEN Break
               ELSE Gone(EachProduct(
                        [target_count |-> collecting.target_count,
                         collected |-> collecting.collected,
                         seen_codes |-> collecting.seen_codes,
                         category_count |-> collecting.category_count,
                         stats |-> collector.stats],
                        products.v))
       IN  IF IsFalsy(data) \/ data.t # "dict" THEN Break
           ELSE Through(Get(data.v, "products", PyList(<<>>)))
    /\ UNCHANGED <<loadVars, enrichVars, mongoVars, overlapVars, scriptVars, raceVars>>

\* collect returns collected
CollectReturn ==
    /\ collecting.pc = "return"
    /\ collecting' = [collecting EXCEPT !.pc = "returned"]
    /\ UNCHANGED <<collector, request>>
    /\ UNCHANGED <<loadVars, enrichVars, mongoVars, overlapVars, scriptVars, raceVars>>

\* the caller has the list; collect may be called again on the Collector
CollectAgain ==
    /\ collecting.pc = "returned"
    /\ collecting' = NotCollecting
    /\ UNCHANGED <<collector, request>>
    /\ UNCHANGED <<loadVars, enrichVars, mongoVars, overlapVars, scriptVars, raceVars>>

CategoryLists == {<<"dairy">>, <<"dairy", "snacks">>}

NextCollect ==
    \/ \E retries \in 0..MaxRetries : NewCollector(retries)
    \/ \E target_count \in 0..MaxDocs, categories \in CategoryLists :
           CollectBegin(target_count, categories)
    \/ ForCategory
    \/ WhileTest
    \/ \E outcome \in Outcomes, data \in ResponsePool \cup {None} :
           RequestAttempt(outcome, data)
    \/ RequestGivesUp
    \/ WhileBody
    \/ CollectReturn
    \/ CollectAgain

\* calls of _request alone
NextRequest ==
    \/ \E retries \in 0..MaxRetries : NewCollector(retries)
    \/ RequestBegin
    \/ \E outcome \in Outcomes, data \in ResponsePool \cup {None} :
           RequestAttempt(outcome, data)
    \/ RequestGivesUp
    \/ RequestDone

SpecRequest == Init /\ [][NextRequest]_vars

SpecCollect == Init /\ [][NextCollect]_vars

\* the collector keeps running: a step that can be taken is taken
SpecCollectFair == SpecCollect /\ WF_vars(NextCollect)

\* ------------------------------------------------------------------------
\* Two ETLPipeline objects running run() at the same time on one store
\* ------------------------------------------------------------------------
\* Each run has its own session, that is its own transaction: it sees the
\* committed rows and its own writes.  The store enforces the unique
\* constraints: an INSERT of a committed key is refused.  PostgreSQL, at its
\* default isolation level, makes an INSERT of a key another open transaction
\* has inserted, and an UPDATE of a row another open transaction has updated,
\* wait for that transaction to end, and aborts one of two transactions that
\* wait for each other.  SQLite has one writer at a time: the first write of
\* a transaction waits while another transaction has written and not ended,
\* and raises when the wait exceeds the timeout of the connection.  A row
\* carries the run that wrote it (by); rows are written whole.

\* get_engine(): USE_SQLITE chooses between the two
Engines == {"sqlite", "postgresql"}

\* the data of a success record: code, product_name, brands and category
RaceDoc(code, name, brands, category) ==
    [code |-> code, product_name |-> name, brands |-> brands, category |-> category]

RacePool ==
    { RaceDoc("1", "A", "x", "k"),
      RaceDoc("2", "B", "y", ""),
      RaceDoc("1", "C", "y", "k"),
      RaceDoc("", "D", "x", "k") }

RaceBatches == UNION {[1..n -> RacePool] : n \in 0..MaxDocs}

\* what an earlier run that loaded two records committed
SeededStore ==
    [engine |-> "none",
     products |-> {[code |-> "1", product_name |-> "A", brand |-> "x",
                    category |-> "k", by |-> 0],
                   [code |-> "2", product_name |-> "Z", brand |-> "",
                    category |-> "", by |-> 0]},
     brands |-> {[name |-> "x", by |-> 0]},
     categories |-> {[name |-> "k", by |-> 0]}]

ProductRow(doc, brand, category, r) ==
    [code |-> doc.code, product_name |-> doc.product_name, brand |-> brand,
     category |-> category, by |-> r]

NameRow(name, r) == [name |-> name, by |-> r]

\* the column under the unique constraint of a table
KeyOf(table, row) == IF table = "products" THEN row.code ELSE row.name

ViolatesNever(table, key, rows) == FALSE

\* a row with this key would be the second one among rows
Violates(table, key, rows) == \E x \in rows : KeyOf(table, x) = key

\* the product rows a transaction with the writes w sees
ProductsSeen(w) ==
    {p \in store.products : \A u \in w.updated : u.code # p.code}
        \cup w.updated \cup w.products

\* session.query(Product).filter_by(code=code).first()
FoundIn(w, code) ==
    LET rows == {p \in ProductsSeen(w) : p.code = code}
    IN  IF rows = {} THEN NoRow ELSE CHOOSE p \in rows : TRUE

SameValues(p, q) ==
    /\ p.product_name = q.product_name
    /\ p.brand = q.brand
    /\ p.category = q.category

\* data.get("brands", "") or data.get("category", "")
NameIn(kind, doc) == IF kind = "brands" THEN doc.brands ELSE doc.category

CurrentDoc(r) == runs[r].docs[runs[r].i]

HasDoc(r) == runs[r].i <= Len(runs[r].docs)

\* the INSERT waits for the other transaction: the one that inserted the key,
\* or with SQLite the one that has written
InsertWaits(r, table, key) ==
    IF store.engine = "sqlite" THEN runs[Rival(r)].w # NoWrites
    ELSE Violates(table, key, runs[Rival(r)].w[table])

\* the UPDATE waits for the other transaction: the one that updated the row,
\* or with SQLite the one that has written
UpdateWaits(r, code) ==
    IF store.engine = "sqlite" THEN runs[Rival(r)].w # NoWrites
    ELSE \E u \in runs[Rival(r)].w.updated : u.code = code

\* the flush of the object that waits in the session waits
PendWaits(r) ==
    \/ /\ runs[r].pend.op = "insert"
       /\ InsertWaits(r, "products", runs[r].pend.row.code)
    \/ /\ runs[r].pend.op = "update"
       /\ UpdateWaits(r, runs[r].pend.row.code)

\* the flush of the object that waits in the session is refused
PendRaises(r) ==
    /\ runs[r].pend.op = "insert"
    /\ Violates("products", runs[r].pend.row.code, store.products)

\* the writes of the transaction after the flush
AfterFlush(r) ==
    LET p == runs[r].pend
        w == runs[r].w
    IN  IF p.op = "insert" THEN [w EXCEPT !.products = @ \cup {p.row}]
        ELSE IF p.op = "update"
        THEN IF \E x \in w.products : x.code = p.row.code
             THEN [w EXCEPT !.products = {x \in @ : x.code # p.row.code} \cup {p.row}]
             ELSE [w EXCEPT !.updated = {x \in @ : x.code # p.row.code} \cup {p.row}]
        ELSE w

\* run(): except, rollback, raise, close
RaisedBy(r, error) ==
    [runs[r] EXCEPT !.pc = "done", !.i = 1, !.existing = NoRow, !.brand = "",
                    !.missing = FALSE, !.pend = NoPending, !.w = NoWrites,
                    !.outcome = "raised", !.error = error]

\* _load_product after the two get-or-create calls: the attributes of the
\* existing product are set, or a new Product is added to the session
Completed(rec, r, category) ==
    LET row == ProductRow(rec.docs[rec.i], rec.brand, category, r)
    IN  [rec EXCEPT !.i = @ + 1, !.pc = "product", !.brand = "",
                    !.existing = NoRow,
                    !.pend = IF rec.existing = NoRow
                             THEN [op |-> "insert", row |-> row]
                             ELSE IF SameValues(row, rec.existing) THEN NoPending
                             ELSE [op |-> "update", row |-> row]]

\* the get-or-create call of kind returned the entity name, or None for ""
GoOn(rec, r, kind, name) ==
    IF kind = "brands" THEN [rec EXCEPT !.brand = name, !.pc = "categories"]
    ELSE Completed(rec, r, name)

\* the next statement of the run waits for the other transaction
Waiting(r) ==
    \/ /\ runs[r].pc = "product"
       /\ HasDoc(r) => CurrentDoc(r).code # ""
       /\ PendWaits(r)
    \/ /\ runs[r].pc \in NameKinds
       /\ ~runs[r].missing
       /\ NameIn(runs[r].pc, CurrentDoc(r)) # ""
       /\ NameIn(runs[r].pc, CurrentDoc(r)) \notin runs[r].cache[runs[r].pc]
       /\ PendWaits(r)
    \/ /\ runs[r].pc \in NameKinds
       /\ runs[r].missing
       /\ InsertWaits(r, runs[r].pc, NameIn(runs[r].pc, CurrentDoc(r)))

\* create_tables() of the first run(): the engine and its empty tables
GetEngine(engine) ==
    /\ store = EmptyStore
    /\ store' = [EmptyStore EXCEPT !.engine = engine]
    /\ UNCHANGED runs
    /\ UNCHANGED <<loadVars, enrichVars, mongoVars, overlapVars, scriptVars, collectVars>>

\* a run of another ETLPipeline object committed before the two start
EarlierRun ==
    /\ store.engine # "none"
    /\ store = [EmptyStore EXCEPT !.engine = store.engine]
    /\ \A r \in Runs : runs[r].pc = "idle"
    /\ store' = [SeededStore EXCEPT !.engine = store.engine]
    /\ UNCHANGED runs
    /\ UNCHANGED <<loadVars, enrichVars, mongoVars, overlapVars, scriptVars, collectVars>>

\* run(): a new session, and the success records extracted
RaceBegin(r, docs) ==
    /\ store.engine # "none"
    /\ runs[r].pc = "idle"
    /\ runs' = [runs EXCEPT ![r] = [@ EXCEPT !.pc = "product", !.docs = docs]]
    /\ UNCHANGED store
    /\ UNCHANGED <<loadVars, enrichVars, mongoVars, overlapVars, scriptVars, collectVars>>

\* _load_product of a record without a code returns False
LoadProductSkip(r) ==
    /\ runs[r].pc = "product"
    /\ HasDoc(r)
    /\ CurrentDoc(r).code = ""
    /\ runs' = [runs EXCEPT ![r] = [@ EXCEPT !.i = @ + 1]]
    /\ UNCHANGED store
    /\ UNCHANGED <<loadVars, enrichVars, mongoVars, overlapVars, scriptVars, collectVars>>

\* _load_product: the query for the product by its code, which flushes the
\* session first; the attributes of an existing product are set
LoadProductLookup(r) ==
    /\ runs[r].pc = "product"
    /\ HasDoc(r)
    /\ CurrentDoc(r).code # ""
    /\ ~PendWaits(r)
    /\ IF PendRaises(r)
       THEN runs' = [runs EXCEPT ![r] = RaisedBy(r, "IntegrityError")]
       ELSE LET w == AfterFlush(r)
                existing == FoundIn(w, CurrentDoc(r).code)
                dirty == [existing EXCEPT !.product_name = CurrentDoc(r).product_name,
                                          !.by = r]
            IN  runs' = [runs EXCEPT ![r] =
                    [@ EXCEPT !.w = w, !.existing = existing, !.pc = "brands",
                              !.pend = IF existing # NoRow /\ ~SameValues(dirty, existing)
                                       THEN [op |-> "update", row |-> dirty]
                                       ELSE NoPending]]
    /\ UNCHANGED store
    /\ UNCHANGED <<loadVars, enrichVars, mongoVars, overlapVars, scriptVars, collectVars>>

\* _get_or_create_brand, _get_or_create_category up to the query: no name, a
\* name of the cache, or the query for the name, which flushes the session
\* first
GetOrCreateLookup(r, kind) ==
    /\ runs[r].pc = kind
    /\ ~runs[r].missing
    /\ LET name == NameIn(kind, CurrentDoc(r))
           rec == runs[r]
       IN  IF name = "" \/ name \in rec.cache[kind]
           THEN runs' = [runs EXCEPT ![r] = GoOn(rec, r, kind, name)]
           ELSE /\ ~PendWaits(r)
                /\ IF PendRaises(r)
                   THEN runs' = [runs EXCEPT ![r] = RaisedBy(r, "IntegrityError")]
                   ELSE LET w == AfterFlush(r)
                            flushed == [rec EXCEPT !.w = w, !.pend = NoPending]
                        IN  IF \E x \in store[kind] \cup w[kind] : x.name = name
                            THEN runs' = [runs EXCEPT ![r] =
                                     GoOn([flushed EXCEPT !.cache[kind] = @ \cup {name}],
                                          r, kind, name)]
                            ELSE runs' = [runs EXCEPT ![r] =
                                     [flushed EXCEPT !.missing = TRUE]]
    /\ UNCHANGED store
    /\ UNCHANGED <<loadVars, enrichVars, mongoVars, overlapVars, scriptVars, collectVars>>

\* _get_or_create_brand, _get_or_create_category after a query that found
\* nothing: add, flush, cache
GetOrCreateInsert(r, kind) ==
    /\ runs[r].pc = kind
    /\ runs[r].missing
    /\ LET name == NameIn(kind, CurrentDoc(r))
           rec == runs[r]
       IN  /\ ~InsertWaits(r, kind, name)
           /\ IF Violates(kind, name, store[kind])
              THEN runs' = [runs EXCEPT ![r] = RaisedBy(r, "IntegrityError")]
              ELSE runs' = [runs EXCEPT ![r] =
                       GoOn([rec EXCEPT !.w[kind] = @ \cup {NameRow(name, r)},
                                        !.cache[kind] = @ \cup {name},
                                        !.missing = FALSE],
                            r, kind, name)]
    /\ UNCHANGED store
    /\ UNCHANGED <<loadVars, enrichVars, mongoVars, overlapVars, scriptVars, collectVars>>

\* the rows of the store once the transaction with the writes w is committed
CommittedWith(w) ==
    [engine |-> store.engine,
     products |-> ProductsSeen(w),
     brands |-> store.brands \cup w.brands,
     categories |-> store.categories \cup w.categories]

\* run() after the loop: commit, which flushes the session first; close
RaceCommit(r) ==
    /\ runs[r].pc = "product"
    /\ ~HasDoc(r)
    /\ ~PendWaits(r)
    /\ IF PendRaises(r)
       THEN /\ runs' = [runs EXCEPT ![r] = RaisedBy(r, "IntegrityError")]
            /\ UNCHANGED store
       ELSE /\ store' = CommittedWith(AfterFlush(r))
            /\ runs' = [runs EXCEPT ![r] =
                   [@ EXCEPT !.pc = "done", !.i = 1, !.pend = NoPending,
                             !.w = NoWrites, !.outcome = "committed",
                             !.at_commit = CommittedWith(AfterFlush(r))]]
    /\ UNCHANGED <<loadVars, enrichVars, mongoVars, overlapVars, scriptVars, collectVars>>

\* each of the two transactions waits for the other: the store aborts one,
\* whose statement raises
DeadlockDetected(r) ==
    /\ Waiting(r)
    /\ Waiting(Rival(r))
    /\ runs' = [runs EXCEPT ![r] = RaisedBy(r, "DeadlockDetected")]
    /\ UNCHANGED store
    /\ UNCHANGED <<loadVars, enrichVars, mongoVars, overlapVars, scriptVars, collectVars>>

\* SQLite: the statement of the run has waited for the writer longer than
\* the timeout of its connection, and raises
LockTimeout(r) ==
    /\ store.engine = "sqlite"
    /\ Waiting(r)
    /\ runs' = [runs EXCEPT ![r] = RaisedBy(r, "OperationalError")]
    /\ UNCHANGED store
    /\ UNCHANGED <<loadVars, enrichVars, mongoVars, overlapVars, scriptVars, collectVars>>

NextRace ==
    \/ \E engine \in Engines : GetEngine(engine)
    \/ EarlierRun
    \/ \E r \in Runs :
          \/ \E docs \in RaceBatches : RaceBegin(r, docs)
          \/ LoadProductSkip(r)
          \/ LoadProductLookup(r)
          \/ \E kind \in NameKinds : GetOrCreateLookup(r, kind)
          \/ \E kind \in NameKinds : GetOrCreateInsert(r, kind)
          \/ RaceCommit(r)
          \/ DeadlockDetected(r)
          \/ LockTimeout(r)

SpecRace == Init /\ [][NextRace]_vars

\* a run that can take a step takes one: each run is a sequential program
\* and the store answers every statement that does not wait
SpecRaceFair == SpecRace /\ WF_vars(NextRace)

\* ------------------------------------------------------------------------
\* Properties of the quality score
\* ------------------------------------------------------------------------

ReturnedSuccess == epc = "returned" /\ result.status = "success"

PayloadOf(doc) == Get(doc, "payload", EmptyPayload)

Regraded(payload, grade) == WithField(payload, "nutriscore_grade", grade)

Recompleted(payload, completeness) == WithField(payload, "completeness", completeness)

\* C11: the quality_score of every success record lies within 0..100,
\* whatever the payload, a completeness below 0 or above 1 included (the
\* load engine copies the score to the products table as it is).
C11_ScoreWithinBounds ==
    ReturnedSuccess => result.data.quality_score.v \in 0..100

\* the weight the specification gives a grade, doubled halves of points:
\* weight * 0.5 counted in halves is the weight itself
WeightHalves(grade) ==
    IF IsStr(grade) /\ Len(grade.v) = 1
    THEN CASE grade.v[1] = "a" -> 100
           [] grade.v[1] = "b" -> 80
           [] grade.v[1] = "c" -> 60
           [] grade.v[1] = "d" -> 40
           [] grade.v[1] = "e" -> 20
           [] OTHER            -> 0
    ELSE 0

\* a completeness in quarters; 0 when absent or null
Quarters(completeness) ==
    CASE completeness.t = "float" -> completeness.v
      [] completeness.t = "int"   -> 4 * completeness.v
      [] OTHER                    -> 0

IsNumberOrAbsent(completeness) ==
    completeness.t \in {"float", "int", "missing", "none"}

\* a grade the formula speaks of: absent, null, or a string; a string that
\* differs from a..e by its case only is left out
IsGradeOrAbsent(grade) ==
    \/ grade.t \in {"missing", "none"}
    \/ IsStr(grade) /\ Lower(grade.v) = grade.v

Clamp(x, lo, hi) == IF x < lo THEN lo ELSE IF x > hi THEN hi ELSE x

\* weight * 0.5 + completeness * 50, clamped to [0, 100], truncated
ExpectedScore(grade, completeness) ==
    Clamp(WeightHalves(grade) + 25 * Quarters(completeness), 0, 200) \div 2

\* C12: for a complete payload whose grade is one of a..e, absent, empty, null or
\* another string and whose completeness is a number, absent or null,
\* enrich_product (with a non-negative max_retries) returns a success record
\* whose quality_score is weight * 0.5 + completeness * 50 clamped to
\* [0, 100] and truncated, an absent, null or unknown grade and an absent or
\* null completeness counting 0.
C12_ScoreFormula ==
    LET Scored(payload) ==
            (/\ payload.t = "dict"
             /\ IsGradeOrAbsent(payload.v.nutriscore_grade)
             /\ IsNumberOrAbsent(payload.v.completeness))
            =>
            /\ ReturnedSuccess
            /\ result.data.quality_score
                 = PyInt(ExpectedScore(payload.v.nutriscore_grade,
                                       payload.v.completeness))
    IN  (epc = "returned" /\ max_retries >= 0 /\ raw_doc \in ScoredPool)
            => Scored(PayloadOf(raw_doc))

GradeOrder == <<"a", "b", "c", "d", "e">>

\* the better grade scores at least as much, and fails when the other does
ScoresAtLeast(better, worse) ==
    /\ (better.exc = NoException) <=> (worse.exc = NoException)
    /\ better.exc = NoException => better.v.v >= worse.v.v

\* C13: for the completeness of any payload enrich_product has answered,
\* _calculate_quality_score orders the grades: score(a) >= score(b) >=
\* score(c) >= score(d) >= score(e), clamped and truncated as it returns
\* them, and the score of the record returned is the one so computed.
C13_GradeOrderKept ==
    LET Ordered(payload) ==
            /\ \A i, j \in DOMAIN GradeOrder :
                   i < j =>
                     ScoresAtLeast(
                       calculate_quality_score(
                           Regraded(payload, PyStr(<<GradeOrder[i]>>))),
                       calculate_quality_score(
                           Regraded(payload, PyStr(<<GradeOrder[j]>>))))
            /\ ReturnedSuccess =>
                   result.data.quality_score = calculate_quality_score(payload).v
    IN  (epc = "returned" /\ PayloadOf(raw_doc).t = "dict")
            => Ordered(PayloadOf(raw_doc))

\* a record of grade a whose score the clamp has cut to 100, while grade e
\* with the same completeness stays below
C13_BestGradeClamped ==
    /\ ReturnedSuccess
    /\ PayloadOf(raw_doc).v.nutriscore_grade = PyStr(<<"a">>)
    /\ PayloadOf(raw_doc).v.completeness = PyFloat(5)
    /\ result.data.quality_score = PyInt(100)
    /\ calculate_quality_score(
           Regraded(PayloadOf(raw_doc), PyStr(<<"e">>))).v = PyInt(72)

\* completeness values from -2 to 2: floats by quarters, and the integers
CompletenessRange ==
    {PyFloat(q) : q \in (0 - 8)..8} \cup {PyInt(n) : n \in (0 - 2)..2}

\* C14: for the grade of any payload enrich_product has answered and any
\* two completeness values c1 <= c2, _calculate_quality_score gives
\* score(c1) <= score(c2), clamped and truncated as it returns them.
C14_CompletenessNeverLowers ==
    LET Monotone(payload) ==
            \A c1, c2 \in CompletenessRange :
                Quarters(c1) <= Quarters(c2) =>
                  ScoresAtLeast(
                    calculate_quality_score(Recompleted(payload, c2)),
                    calculate_quality_score(Recompleted(payload, c1)))
    IN  (epc = "returned" /\ PayloadOf(raw_doc).t = "dict")
            => Monotone(PayloadOf(raw_doc))

\* a record whose score was truncated: grade a, completeness 0.25 is 62.5
C14_TruncatedScore ==
    /\ ReturnedSuccess
    /\ PayloadOf(raw_doc).v.nutriscore_grade = PyStr(<<"a">>)
    /\ PayloadOf(raw_doc).v.completeness = PyFloat(1)
    /\ result.data.quality_score = PyInt(62)
    /\ calculate_quality_score(
           Recompleted(PayloadOf(raw_doc), PyFloat(2))).v = PyInt(75)

\* ------------------------------------------------------------------------
\* Properties of repeated calls
\* ------------------------------------------------------------------------

SameButEnrichedAt(r1, r2) ==
    /\ DOMAIN r1 = DOMAIN r2
    /\ \A k \in DOMAIN r1 \ {"enriched_at"} : r1[k] = r2[k]

\* the call answered now has the raw document of the call before it, and
\* the same max_retries or, like it, one that lets an attempt be made
SameInputAgain ==
    /\ epc = "returned"
    /\ previous.result # NoResult
    /\ previous.raw_doc = raw_doc
    /\ \/ previous.max_retries = max_retries
       \/ previous.max_retries >= 0 /\ max_retries >= 0

MainOf(doc) == PayloadOf(doc).v.main_category

TagsOf(doc) == PayloadOf(doc).v.categories_tags

\* the payload is a dictionary and the call returned a success record
Categorized == ReturnedSuccess /\ PayloadOf(raw_doc).t = "dict"

HasMain(doc) == IsStr(MainOf(doc)) /\ MainOf(doc).v # <<>>

HasTags(doc) ==
    /\ TagsOf(doc).t = "list"
    /\ TagsOf(doc).v # <<>>
    /\ IsStr(TagsOf(doc).v[1])

IsLetter(c) == IsUpper(c) \/ IsLower(c)

\* every letter that follows a letter is a small one, every other a capital
IsTitleCased(s) ==
    \A i \in DOMAIN s :
        IsLetter(s[i]) =>
            IF i > 1 /\ IsLetter(s[i - 1]) THEN IsLower(s[i]) ELSE IsUpper(s[i])

BreakfastCereals ==
    <<"B", "r", "e", "a", "k", "f", "a", "s", "t", " ",
      "C", "e", "r", "e", "a", "l", "s">>

\* C16: the category of a success record is the normalized main_category
\* when that is a non-empty string, list of tags or not; else the normalized
\* first tag of a non-empty list; else, and only then, the sentinel.  A
\* normalized name has no hyphen left and is title-cased;
\* "en:breakfast-cereals" gives "Breakfast Cereals".
C16_CategoryByPriority ==
    LET Chosen(category) ==
            /\ HasMain(raw_doc) =>
                   category = PyStr(FormatCategory(MainOf(raw_doc).v))
            /\ ~Truthy(MainOf(raw_doc)) /\ HasTags(raw_doc) =>
                   category = PyStr(FormatCategory(TagsOf(raw_doc).v[1].v))
            /\ ~Truthy(MainOf(raw_doc)) /\ ~Truthy(TagsOf(raw_doc)) =>
                   category = PyStr(NonCategorise)
            /\ category = PyStr(NonCategorise) =>
                   ~Truthy(MainOf(raw_doc)) /\ ~Truthy(TagsOf(raw_doc))
            /\ HasMain(raw_doc) \/ HasTags(raw_doc) =>
                   /\ \A i \in DOMAIN category.v : category.v[i] # "-"
                   /\ IsTitleCased(category.v)
            /\ MainOf(raw_doc) = PyStr(EnBreakfastCereals) =>
                   category = PyStr(BreakfastCereals)
    IN  Categorized => Chosen(result.data.category)

\* a main category was preferred to the tags, its hyphen replaced and its
\* words title-cased
C16_MainBeforeTags ==
    /\ Categorized
    /\ MainOf(raw_doc) = PyStr(IcedTea)
    /\ HasTags(raw_doc)
    /\ result.data.category = PyStr(<<"I", "c", "e", "d", " ", "T", "e", "a">>)

\* what follows the first colon of a tag, the whole tag when it has none
RECURSIVE AfterPrefix(_, _)
AfterPrefix(tag, rest) ==
    IF rest = <<>> THEN tag
    ELSE IF Head(rest) = ":" THEN Tail(rest)
    ELSE AfterPrefix(tag, Tail(rest))

\* the tag the category is made from: main_category, else the first tag
SourceTag(doc) ==
    IF HasMain(doc) THEN MainOf(doc).v ELSE TagsOf(doc).v[1].v

\* C17: the category made from main_category or from the first tag is that
\* tag without its leading prefix up to the colon, whatever the prefix, and
\* with nothing else removed: hyphens replaced, title-cased, and not
\* starting with a prefix and a colon.
C17_AnyPrefixStripped ==
    (/\ Categorized
     /\ HasMain(raw_doc) \/ (~Truthy(MainOf(raw_doc)) /\ HasTags(raw_doc)))
    => result.data.category
         = PyStr(Title(DashToSpace(
               AfterPrefix(SourceTag(raw_doc), SourceTag(raw_doc)))))

NothingToCategorize ==
    Categorized /\ ~Truthy(MainOf(raw_doc)) /\ ~Truthy(TagsOf(raw_doc))

SameContent(p1, p2) == {p1[i] : i \in DOMAIN p1} = {p2[i] : i \in DOMAIN p2}

Holds(coll, payload) ==
    \E i \in DOMAIN coll : SameContent(coll[i].payload, payload)

\* the positions of a batch whose content is neither stored nor earlier in
\* the batch
Adding(before, payloads) ==
    {i \in DOMAIN payloads :
        /\ ~Holds(before, payloads[i])
        /\ \A j \in 1..(i - 1) : ~SameContent(payloads[j], payloads[i])}

\* C19: products_raw never holds two documents with one raw_hash, nor two
\* whose payloads have the same content; insert_raw_document of a content
\* that is stored adds nothing and returns None, of a new one appends it and
\* returns its hash; insert_raw_documents_batch keeps what was stored, adds
\* one document per content that is new to the store and to the batch so
\* far, and returns how many it added.
C19_OneDocumentPerContent ==
    LET Kept(before) ==
            /\ Len(raw) >= Len(before)
            /\ SubSeq(raw, 1, Len(before)) = before
        One(payload, before) ==
            IF Holds(before, payload)
            THEN raw = before /\ mongo_ret = None
            ELSE /\ Len(raw) = Len(before) + 1
                 /\ raw[Len(raw)].payload = payload
                 /\ mongo_ret = raw[Len(raw)].raw_hash
        Batch(payloads, before) ==
            /\ mongo_ret = PyInt(Len(raw) - Len(before))
            /\ Len(raw) - Len(before) = Cardinality(Adding(before, payloads))
    IN  /\ \A i, j \in DOMAIN raw :
               (\/ raw[i].raw_hash = raw[j].raw_hash
                \/ SameContent(raw[i].payload, raw[j].payload)) => i = j
        /\ mongo_call.op = "insert_raw_document" =>
               Kept(mongo_call.before) /\ One(mongo_call.arg, mongo_call.before)
        /\ mongo_call.op = "insert_raw_documents_batch" =>
               Kept(mongo_call.before) /\ Batch(mongo_call.arg, mongo_call.before)

\* a payload was refused whose items are stored in another order only
C19_ReorderedPayloadRefused ==
    /\ mongo_call.op = "insert_raw_document"
    /\ Holds(mongo_call.before, mongo_call.arg)
    /\ \A i \in DOMAIN mongo_call.before :
           mongo_call.before[i].payload # mongo_call.arg
    /\ raw = mongo_call.before
    /\ mongo_ret = None

\* the record given last for its raw_id is stored as it was given
StoredAsGiven(doc) == \E i \in DOMAIN enriched : enriched[i] = doc

\* C20: products_enriched never holds two records with one raw_id, and the
\* record of a raw_id is exactly the one upserted last for it, by
\* insert_enriched_document or by insert_enriched_documents_batch: no field
\* of the record it replaced, such as its error, remains.
C20_LastEnrichmentOnly ==
    LET Batch(docs) ==
            \A k \in DOMAIN docs :
                (/\ Truthy(docs[k].raw_id)
                 /\ \A j \in (k + 1)..Len(docs) : docs[j].raw_id # docs[k].raw_id)
                => StoredAsGiven(docs[k])
    IN  /\ \A i, j \in DOMAIN enriched :
               enriched[i].raw_id = enriched[j].raw_id => i = j
        /\ mongo_call.op = "insert_enriched_document" =>
               StoredAsGiven(mongo_call.arg)
        /\ mongo_call.op = "insert_enriched_documents_batch" =>
               Batch(mongo_call.arg)

\* the content of a payload: its items whatever their order, those of a
\* nested dict too
RECURSIVE Content(_)
Content(payload) ==
    {[k |-> payload[i].k,
      v |-> IF payload[i].v.t = "dict"
            THEN [t |-> "content", v |-> Content(payload[i].v.v)]
            ELSE payload[i].v] : i \in DOMAIN payload}

\* C21: compute_raw_hash gives two payloads of the same content the same hash,
\* whatever the insertion order of their keys and of the keys of their nested
\* dicts, and gives the same payload the same hash when it is called again.
C21_HashOfContent ==
    (/\ mongo_call.op = "compute_raw_hash"
     /\ mongo_call.before # <<>>
     /\ Content(mongo_call.before[1].payload) = Content(mongo_call.arg))
    => mongo_ret = mongo_call.before[1].raw_hash

\* two payloads that differ in the key order of their nested dict only were
\* hashed one after the other, to one hash
C21_NestedOrderOnly ==
    /\ mongo_call.op = "compute_raw_hash"
    /\ mongo_call.before # <<>>
    /\ mongo_call.arg = Nested(<<"1">>, Reversed(FatSalt(1, 2)))
    /\ mongo_call.before[1].payload = Nested(<<"1">>, FatSalt(1, 2))
    /\ mongo_ret = mongo_call.before[1].raw_hash

\* every row of the tables before is a row of the tables after, under the
\* same id
RowsKept(before, after) ==
    /\ \A r \in before.products :
           \E r2 \in after.products : r2.id = r.id /\ r2.code = r.code
    /\ \A r \in before.brands :
           \E r2 \in after.brands : r2.id = r.id /\ r2.name = r.name
    /\ \A r \in before.categories :
           \E r2 \in after.categories : r2.id = r.id /\ r2.name = r.name

\* C23: no step of the load engine removes a committed row or changes its
\* id: the products, brands and categories of the committed tables are still
\* there after the step, so the set of stored codes only grows.
C23_NoRowRemoved ==
    [][/\ RowsKept(db, db')
       /\ {r.code : r \in db.products} \subseteq {r.code : r \in db'.products}]_vars

\* a second run has committed changes over the rows of a first committed run
C23_CommittedTwice ==
    /\ clock = 2
    /\ pc = "finally"
    /\ exc = NoError
    /\ last.outcome = "committed"
    /\ Cardinality(last.db.products) = 2
    /\ db # last.db
    /\ RowsKept(last.db, db)

\* the grades of the Nutri-Score, and the empty string
GradeOrEmpty == {PyStr(<<g>>) : g \in {"a", "b", "c", "d", "e"}} \cup {PyStr(<<>>)}

\* C24: the nutriscore_grade of every success record enrich_product returns,
\* and of every Product row, is one of a, b, c, d, e or the empty string,
\* whatever grade the payload carries.
C24_GradeIsALetterOrEmpty ==
    /\ ReturnedSuccess => result.data.nutriscore_grade \in GradeOrEmpty
    /\ \A p \in db.products \cup session.tx.products :
           p.nutriscore_grade \in GradeOrEmpty

\* the cached entities, brands and categories
CachedEntities ==
    {brands_cache[n] : n \in DOMAIN brands_cache}
        \cup {categories_cache[n] : n \in DOMAIN categories_cache}

\* C27: a run() starts with empty caches, and while it extracts and loads no
\* cache holds an entity of an earlier run: none left detached by the close
\* of an earlier session, none left transient by an earlier rollback.
C27_CachesOfThisRunOnly ==
    /\ pc = "extract" => brands_cache = <<>> /\ categories_cache = <<>>
    /\ pc \in {"extract", "load"} =>
           \A ent \in CachedEntities : ent.st \notin {"detached", "transient"}

\* ------------------------------------------------------------------------
\* Properties of the calls run() makes on its session
\* ------------------------------------------------------------------------

\* the positions in calls of the calls of one method
CallsOf(op) == {i \in DOMAIN calls : calls[i].op = op}

\* the positions of the round trips of one kind for one name
RoundTrips(op, kind, key) ==
    {i \in DOMAIN calls :
        calls[i].op = op /\ calls[i].kind = kind /\ calls[i].key = key}

\* until the run has called commit the committed tables are those the run
\* before it left
NothingDurableBeforeCommit ==
    (pc # "idle" /\ CallsOf("commit") = {}) => db = last.db

\* C28 as stated: in a run, commit is called at most once, only when
\* _load_product has returned for every extracted record, never in a run
\* that calls rollback, and nothing is durable before it.
C28_CommitOnceNeverWithRollback ==
    /\ Cardinality(CallsOf("commit")) <= 1
    /\ CallsOf("commit") # {} => idx > Len(enriched_docs)
    /\ ~(CallsOf("commit") # {} /\ CallsOf("rollback") # {})
    /\ NothingDurableBeforeCommit

\* C28 amended: in a run, commit is called at most once, only when
\* _load_product has returned for every extracted record; rollback is called
\* after it only when that commit raised, and then nothing was made durable;
\* nothing is durable before the commit.
C28_CommitOnceAfterTheLoop ==
    /\ Cardinality(CallsOf("commit")) <= 1
    /\ CallsOf("commit") # {} => idx > Len(enriched_docs)
    /\ \A i \in CallsOf("commit"), j \in CallsOf("rollback") :
           /\ i < j
           /\ calls[i].exc # NoError
           /\ db = last.db
    /\ NothingDurableBeforeCommit

\* a run has loaded a product, its commit has raised and it has rolled back
C28_CommitRaised ==
    /\ pc = "finally"
    /\ loaded > 0
    /\ \E i \in CallsOf("commit") : calls[i].exc # NoError
    /\ CallsOf("rollback") # {}

\* C29: a run closes its session exactly once, as the last call it makes on
\* it: not while it extracts, loads, commits or rolls back, and once it is
\* over right after the commit that returned (the run returns) or after the
\* rollback (the run raises).
C29_ClosedOnceAtTheEnd ==
    /\ pc \in {"extract", "load", "except", "finally"} =>
           CallsOf("close") = {} /\ session.state = "open"
    /\ (pc = "idle" /\ clock > 0) =>
           /\ session.state = "closed"
           /\ CallsOf("close") = {Len(calls)}
           /\ Len(calls) >= 2
           /\ IF last.outcome = "committed"
              THEN /\ calls[Len(calls) - 1].op = "commit"
                   /\ calls[Len(calls) - 1].exc = NoError
                   /\ CallsOf("rollback") = {}
              ELSE calls[Len(calls) - 1].op = "rollback"

\* a run that raised while loading has rolled back and closed its session
C29_ClosedAfterRollback ==
    /\ pc = "idle"
    /\ last.outcome = "raised"
    /\ Len(calls) > 2
    /\ calls[Len(calls)].op = "close"

\* the name a record's brand is cached under
BrandKey(doc) == Take(Strip(BrandOf(Get(doc, "data", NoData)).v), NAME_MAX)

\* C30: in a run, for each brand name and each category name, trimmed and
\* cut to 255 characters, there is at most one query by that name and at most
\* one INSERT; once queried, the name is in the cache for the records that
\* follow.
C30_OneRoundTripPerName ==
    \A i \in CallsOf("query") \cup CallsOf("insert") :
        /\ RoundTrips(calls[i].op, calls[i].kind, calls[i].key) = {i}
        /\ pc = "load" => InCache(Machine, calls[i].kind, calls[i].key)

\* two records of one run carry the same brand, one of them between blanks,
\* and the run has queried it once
C30_SameBrandTwice ==
    /\ pc = "load"
    /\ idx = 3
    /\ loaded = 2
    /\ IsStr(enriched_docs[1].data.brands)
    /\ IsStr(enriched_docs[2].data.brands)
    /\ enriched_docs[1].data.brands # enriched_docs[2].data.brands
    /\ BrandKey(enriched_docs[1]) = <<"X">>
    /\ BrandKey(enriched_docs[2]) = <<"X">>
    /\ Cardinality(RoundTrips("query", "brands", <<"X">>)) = 1

\* ------------------------------------------------------------------------
\* Properties of the image and nutrition fields
\* ------------------------------------------------------------------------

\* the candidate image fields, in the order they are to be probed
ImageKeys ==
    <<"image_front_small_url", "image_front_url", "image_url", "image_small_url">>

\* a key read from a dict that may not have it: null when absent
Field(d, key) == IF key \in DOMAIN d THEN Get(d, key, None) ELSE None

\* the first candidate field that is present and not null, null when none
RECURSIVE FirstPresent(_, _)
FirstPresent(payload, keys) ==
    IF keys = <<>> THEN None
    ELSE IF Field(payload.v, Head(keys)) # None THEN Field(payload.v, Head(keys))
    ELSE FirstPresent(payload, Tail(keys))

\* C26: the image_url of a success record is the first present, non-null
\* value among the payload's image fields front-small, front, generic, small,
\* and null when there is none.
C26_ImageUrlProbed ==
    (ReturnedSuccess /\ PayloadOf(raw_doc).t = "dict") =>
        Field(result.data, "image_url") = FirstPresent(PayloadOf(raw_doc), ImageKeys)

\* the NutritionFacts rows of the relational store: the tables are those
\* models.py declares
NutritionRows(tables) ==
    IF "nutrition_facts" \in DOMAIN tables THEN tables.nutrition_facts ELSE {}

\* at least one nutrition field of the record is not null
HasNutrition(doc) ==
    LET Some(nutrition) ==
            /\ nutrition # None
            /\ \E k \in DOMAIN nutrition.v : nutrition.v[k] \notin {None, Missing}
    IN  Some(Field(Get(doc, "data", NoData), "nutrition"))

NutritionRowsOf(p) == {n \in NutritionRows(db) : n.product_id = p.id}

\* C25: every Product has at most one NutritionFacts row, and after a
\* committed run the Product of every extracted record that carries a
\* non-null nutrition field has exactly one, whether the run inserted the
\* Product or updated it.
C25_OneNutritionFactsRow ==
    /\ \A p \in db.products : Cardinality(NutritionRowsOf(p)) <= 1
    /\ (pc = "idle" /\ last.outcome = "committed") =>
           \A i \in DOMAIN last.coll :
               (/\ IsSuccess(last.coll[i])
                /\ HasCode(last.coll[i])
                /\ HasNutrition(last.coll[i]))
               => \E p \in db.products :
                      /\ p.code = CodeOf(last.coll[i])
                      /\ Cardinality(NutritionRowsOf(p)) = 1

\* ------------------------------------------------------------------------
\* Properties of overlapping run() calls
\* ------------------------------------------------------------------------

\* C22: two run() calls that overlap in time each use their own session and
\* their own caches: every query, commit, rollback and close of a run() is on
\* the session its own get_session() made, and every entity a cache hands it
\* was cached by itself.
C22_OwnSessionAndCaches ==
    \A u \in uses : invocations[u.by].overlapped => u.of = u.by

\* two run() calls on two pipeline objects overlap and both are over
C22_TwoObjects ==
    /\ \A t \in Invocations : invocations[t].pc = "done" /\ invocations[t].overlapped
    /\ invocations[1].self # invocations[2].self
    /\ \A u \in uses : u.of = u.by

\* ------------------------------------------------------------------------
\* Properties of the update of an existing product
\* ------------------------------------------------------------------------

\* the row of the tables after that continues the row p: the one with its id
\* or its code
Continues(p, q) == q.id = p.id \/ q.code = p.code

SameIdentity(p, q) == q.id = p.id /\ q.code = p.code /\ q.created_at = p.created_at

\* C31: loading a record whose code already exists leaves the id, the code
\* and created_at of that product row as they are, in the open transaction
\* and in the committed tables: whatever row of the next state has the id or
\* the code of a row has all three; created_at is the time of the insert.
C31_UpdateKeepsIdentity ==
    [][/\ \A p \in session.tx.products : \A q \in session'.tx.products :
              Continues(p, q) => SameIdentity(p, q)
       /\ \A p \in db.products : \A q \in db'.products :
              Continues(p, q) => SameIdentity(p, q)]_vars

\* a second run has committed an update of a row the first run inserted: the
\* name and the category reference changed, the identity did not
C31_UpdatedInSecondRun ==
    /\ clock = 2
    /\ pc = "finally"
    /\ exc = NoError
    /\ \E p \in last.db.products : \E q \in db.products :
           /\ SameIdentity(p, q)
           /\ q.created_at = 1
           /\ q.product_name # p.product_name
           /\ q.category_id # p.category_id

\* ------------------------------------------------------------------------
\* Properties of get-or-create without a name
\* ------------------------------------------------------------------------

\* the name the record being loaded gives for a brand or a category
NameGiven(kind, doc) ==
    IF kind = "brands" THEN BrandOf(Get(doc, "data", NoData))
    ELSE CategoryOf(Get(doc, "data", NoData))

\* the names of a table, inserted or waiting for the next flush
NamesOf(sess, kind) ==
    {r.name : r \in sess.tx[kind]} \cup {r.name : r \in sess.pend[kind]}

\* the product rows of the session, inserted or waiting for the next flush
ProductsOf(sess) ==
    sess.tx.products \cup {sess.pend.products[i] : i \in DOMAIN sess.pend.products}

ReferenceOf(kind, row) == IF kind = "brands" THEN row.brand_id ELSE row.category_id

CacheOf(kind, b, c) == IF kind = "brands" THEN b ELSE c

\* C32: get_or_create_brand and get_or_create_category called with an empty
\* or null name return no entity, no error, and the session and the caches as
\* they were; when the record is then loaded, its product row has a null
\* reference for that table, whatever it had before, and the names the cache
\* and the table hold are the same as before the step.
C32_NoNameNoEntity ==
    /\ [](\A kind \in NameKinds :
            (pc = "load" /\ idx <= Len(enriched_docs)
                /\ ~Truthy(NameGiven(kind, enriched_docs[idx])))
            => GetOrCreate(Machine, kind, NameGiven(kind, enriched_docs[idx]))
                   = Result(Machine, NoEntity, NoError))
    /\ [][\A kind \in NameKinds :
            (pc = "load" /\ idx <= Len(enriched_docs) /\ idx' = idx + 1
                /\ ret' = TRUE /\ ~Truthy(NameGiven(kind, enriched_docs[idx])))
            => /\ \A q \in ProductsOf(session') :
                      q.code = CodeOf(enriched_docs[idx])
                      => ReferenceOf(kind, q) = None
               /\ \E q \in ProductsOf(session') :
                      q.code = CodeOf(enriched_docs[idx])
               /\ DOMAIN CacheOf(kind, brands_cache', categories_cache')
                      = DOMAIN CacheOf(kind, brands_cache, categories_cache)
               /\ NamesOf(session', kind) = NamesOf(session, kind)]_vars

\* a committed product that referenced a brand and a category has lost both
\* references in the open transaction
C32_ReferencesReplacedByNull ==
    /\ pc = "load"
    /\ \E p \in db.products : \E q \in session.tx.products :
           /\ q.id = p.id
           /\ p.brand_id # None
           /\ p.category_id # None
           /\ q.brand_id = None
           /\ q.category_id = None

\* ------------------------------------------------------------------------
\* Properties of the column limits
\* ------------------------------------------------------------------------

\* String(500), String(255), String(1) of the models
WithinLimits(products, brands, categories) ==
    /\ \A p \in products :
           /\ Len(p.product_name.v) <= PRODUCT_NAME_MAX
           /\ Len(p.nutriscore_grade.v) <= GRADE_MAX
    /\ \A r \in brands \cup categories : Len(r.name) <= NAME_MAX

\* two names longer than the limit that are the same up to it
SameUpToLimit(n1, n2) ==
    /\ Len(n1) > NAME_MAX
    /\ Len(n2) > NAME_MAX
    /\ Take(n1, NAME_MAX) = Take(n2, NAME_MAX)

\* the committed rows of two records that are the last of their codes
\* reference one and the same row of the table
SameRow(kind, d1, d2) ==
    \E p, q \in db.products : \E r \in db[kind] :
        /\ p.code = CodeOf(d1)
        /\ q.code = CodeOf(d2)
        /\ ReferenceOf(kind, p) = PyInt(r.id)
        /\ ReferenceOf(kind, q) = PyInt(r.id)

RowsWithinLimits ==
    /\ WithinLimits(db.products, db.brands, db.categories)
    /\ WithinLimits(ProductsOf(session),
                    session.tx.brands \cup session.pend.brands,
                    session.tx.categories \cup session.pend.categories)

\* C33 as stated: every row respects the column limits, and two names that
\* differ only beyond the 255th character resolve to the same row.
C33_SameRowBeyondLimit ==
    /\ RowsWithinLimits
    /\ Succeeded =>
           \A i, j \in DOMAIN enriched_docs : \A kind \in NameKinds :
               (/\ LastOfItsCode(enriched_docs, i)
                /\ LastOfItsCode(enriched_docs, j)
                /\ SameUpToLimit(NameGiven(kind, enriched_docs[i]).v,
                                 NameGiven(kind, enriched_docs[j]).v))
               => SameRow(kind, enriched_docs[i], enriched_docs[j])

\* C33 as amended: every row the load engine writes, committed, inserted or
\* pending, respects the column limits (product_name 500, names 255, grade
\* 1), and two names that, once stripped of surrounding whitespace, differ
\* only beyond the 255th character resolve to the same row.
C33_SameRowBeyondLimitOnceStripped ==
    /\ RowsWithinLimits
    /\ Succeeded =>
           \A i, j \in DOMAIN enriched_docs : \A kind \in NameKinds :
               (/\ LastOfItsCode(enriched_docs, i)
                /\ LastOfItsCode(enriched_docs, j)
                /\ SameUpToLimit(Strip(NameGiven(kind, enriched_docs[i]).v),
                                 Strip(NameGiven(kind, enriched_docs[j]).v)))
               => SameRow(kind, enriched_docs[i], enriched_docs[j])

\* a committed run loaded two records whose brands differ in the 256th
\* character only: both products reference the one brand row of 255
\* characters, and a product name and a grade were cut
C33_TwoLongNamesOneRow ==
    /\ Succeeded
    /\ Cardinality(db.products) = 2
    /\ \E i, j \in DOMAIN enriched_docs :
           /\ i # j
           /\ BrandOf(enriched_docs[i].data) # BrandOf(enriched_docs[j].data)
           /\ SameUpToLimit(Strip(BrandOf(enriched_docs[i].data).v),
                            Strip(BrandOf(enriched_docs[j].data).v))
           /\ SameRow("brands", enriched_docs[i], enriched_docs[j])
    /\ \E r \in db.brands : Len(r.name) = NAME_MAX
    /\ \E p \in db.products :
           /\ Len(p.product_name.v) = PRODUCT_NAME_MAX
           /\ p.nutriscore_grade = PyStr(<<"B">>)

\* ------------------------------------------------------------------------
\* Properties of the fallback return
\* ------------------------------------------------------------------------

\* C34: the fallback return is never reached: for every raw document and
\* every integer max_retries, negative ones included, the record returned has
\* the status success or failed and an enriched_at that is a timestamp, not
\* null.
C34_NeverPending ==
    epc = "returned" =>
        /\ result.status \in {"success", "failed"}
        /\ result.enriched_at # None

\* ------------------------------------------------------------------------
\* Properties of the enrichment script
\* ------------------------------------------------------------------------

\* the records of products_enriched that belong to a raw document
RecordsOf(doc) == {k \in DOMAIN enriched : enriched[k].raw_id = Str(doc._id)}

\* C35: when main() has completed over a products_raw that is not empty,
\* products_enriched holds exactly one record for every raw document, under
\* the text of the document's _id, and stats["success"] + stats["failed"] is
\* the number of raw documents.
C35_OneRecordPerRawDocument ==
    (script.pc = "returned" /\ script.raw_docs # <<>>) =>
        /\ \A i \in DOMAIN raw : Cardinality(RecordsOf(raw[i])) = 1
        /\ DOMAIN script.stats = {"success", "failed"}
        /\ script.stats["success"] + script.stats["failed"] = Len(raw)

\* main() has completed a second time, over one raw document it had enriched
\* before and one that is new; one enrichment succeeded, one failed
C35_EnrichedAgain ==
    /\ script.pc = "returned"
    /\ script.calls = 2
    /\ Len(raw) = 2
    /\ Len(enriched) = 2
    /\ script.stats["success"] = 1
    /\ script.stats["failed"] = 1

\* ------------------------------------------------------------------------
\* Properties of the collector
\* ------------------------------------------------------------------------

CodeIn(product) == Get(product.v, "code", PyStr(<<>>))

\* what collect returns: products that are dictionaries with a code and a
\* product_name that are not empty, no code twice, no more than target_count
ReturnedList(collected, target_count) ==
    /\ \A i \in DOMAIN collected :
           /\ collected[i].t = "dict"
           /\ Truthy(GetOrNone(collected[i].v, "code"))
           /\ Truthy(GetOrNone(collected[i].v, "product_name"))
    /\ \A i, j \in DOMAIN collected :
           CodeIn(collected[i]) = CodeIn(collected[j]) => i = j
    /\ Len(collected) <= target_count

\* C36 as stated: in the list collect returns, the codes are pairwise
\* distinct, every product has a code and a product_name that are not empty,
\* the length is at most target_count, and stats["collected"] is that length.
C36_CollectedIsTheLength ==
    collecting.pc = "returned" =>
        /\ ReturnedList(collecting.collected, collecting.target_count)
        /\ collector.stats.collected = Len(collecting.collected)

\* C36 as amended: the list is as above, and stats["collected"] has grown by
\* the length of the list during the call; it is that length when the call is
\* the first one on the Collector.
C36_CollectedGrowsByTheLength ==
    collecting.pc = "returned" =>
        /\ ReturnedList(collecting.collected, collecting.target_count)
        /\ collector.stats.collected = collecting.before + Len(collecting.collected)
        /\ collector.calls = 1 =>
               collector.stats.collected = Len(collecting.collected)

\* a second call of collect on the Collector has returned two products after
\* skipping an invalid product and an item that is no dictionary; the first
\* call had collected some
C36_SecondCallReturned ==
    /\ collecting.pc = "returned"
    /\ collector.calls = 2
    /\ Len(collecting.collected) = 2
    /\ collecting.before > 0
    /\ collector.stats.missing_data > 0
    /\ collector.stats.invalid_format > 0

\* how many of the attempts met one of the outcomes
Met(outcomes_) == Cardinality({k \in DOMAIN request.met : request.met[k] \in outcomes_})

Failures == {"timeout", "invalid", "error"}

\* C37: _request makes at most max_retries attempts; an attempt that meets a
\* response that parses or a body that is no JSON is the last one, and the
\* second returns None; None is returned without such an attempt only after
\* max_retries timeouts or request errors; every failed attempt has added one
\* to stats["errors"], every timeout one to stats["timeouts"], so that errors
\* is never below timeouts.
C37_AtMostMaxRetriesAttempts ==
    /\ Len(request.met) <= collector.max_retries
    /\ \A k \in DOMAIN request.met :
           k < Len(request.met) => request.met[k] \in {"timeout", "error"}
    /\ (request.met # <<>> /\ request.met[Len(request.met)] \in {"ok", "invalid"})
           => request.pc = "returned"
    /\ request.pc = "returned" =>
           /\ request.ret # None => request.met[Len(request.met)] = "ok"
           /\ Met({"invalid"}) > 0 => request.ret = None
           /\ Met({"ok", "invalid"}) = 0 =>
                  /\ request.ret = None
                  /\ Len(request.met) = collector.max_retries
    /\ request.pc # "idle" =>
           /\ collector.stats.errors = request.before.errors + Met(Failures)
           /\ collector.stats.timeouts = request.before.timeouts + Met({"timeout"})
    /\ collector.stats.errors >= collector.stats.timeouts

\* a second call of _request has returned None after a timeout and a request
\* error, the two attempts max_retries allows
C37_GaveUpAfterTwoFailures ==
    /\ request.pc = "returned"
    /\ collector.calls = 2
    /\ collector.max_retries = 2
    /\ request.met = <<"timeout", "error">>
    /\ request.ret = None
    /\ request.before.errors > 0
    /\ collector.stats.errors = request.before.errors + 2

\* C38: collect terminates when every _request call returns: a call of
\* collect that has started returns, whatever pages the catalog API answers
\* with.
C38_CollectReturns ==
    [](collecting.pc \notin {"idle", "returned"} => <>(collecting.pc = "returned"))

\* ------------------------------------------------------------------------
\* Properties of names made of whitespace
\* ------------------------------------------------------------------------

\* C39: no Brand and no Category row with an empty name is ever created: no
\* row of the two tables, added to the session, inserted in the open
\* transaction or committed, has the empty string as its name.
C39_NoRowWithoutName ==
    \A kind \in NameKinds :
        /\ <<>> \notin NamesOf(session, kind)
        /\ \A r \in db[kind] : r.name # <<>>

\* ------------------------------------------------------------------------
\* Properties of two concurrent runs
\* ------------------------------------------------------------------------

\* no key twice among the committed rows of a table
NoDuplicate(table) ==
    \A x, y \in store[table] : KeyOf(table, x) = KeyOf(table, y) => x = y

\* the keys a batch writes to a table
KeysOf(table, docs) ==
    IF table = "products"
    THEN {docs[k].code : k \in DOMAIN docs} \ {""}
    ELSE {NameIn(table, docs[k]) : k \in {j \in DOMAIN docs : docs[j].code # ""}} \ {""}

RaceTables == {"products", "brands", "categories"}

\* the run committed its whole batch: every key of the batch was a committed
\* row when the run committed
CommittedAll(r) ==
    \A table \in RaceTables : \A key \in KeysOf(table, runs[r].docs) :
        Violates(table, key, runs[r].at_commit[table])

\* the run committed nothing: no committed row was written by it
CommittedNothing(r) ==
    \A table \in RaceTables : \A x \in store[table] : x.by # r

\* the two batches write a common key, the ground of the race between the
\* lookup of one run and the insert of the other
RaceOver(r) ==
    \E table \in RaceTables :
        KeysOf(table, runs[r].docs) \cap KeysOf(table, runs[Rival(r)].docs) # {}

====
